---- MODULE Spec2Model ----
(***************************************************************************)
(* A model of the QR-code Telegram bot: the per-user conversation state    *)
(* kept in context.user_data (src/bot.py), the text dispatcher             *)
(* handle_dynamic_text and the handlers it calls, the command handlers,    *)
(* the validators (src/qr_generator/utils.py) and the payload encoders     *)
(* (src/qr_generator/templates.py).                                        *)
(*                                                                         *)
(* Texts are TLA+ strings; validators and encoders are computed character  *)
(* by character.  A Python dict is a function whose DOMAIN is the set of   *)
(* keys present, so "k in d" is k \in DOMAIN d and d.pop(k) restricts the  *)
(* domain.  A handler is an operator from the user's dict and the incoming *)
(* text to the dict it leaves behind and the replies it sent.              *)
(***************************************************************************)
EXTENDS Integers, Sequences, FiniteSets, TLC

VARIABLES
    user_data,   \* [Users -> dict]: context.user_data of every user
    replies,     \* message keys sent to the user by the last event, in order
    rendered,    \* payloads handed to QRGenerator.generate_qr by the last event
    raised,      \* TRUE iff the last event ended in an unhandled exception
    fails,       \* consecutive events of the user that ended in a validation error
    queue,       \* Application.update_queue: the updates that wait, in order
    running,     \* the updates whose handler has started and not yet returned
    arrived,     \* the number of updates received so far
    call         \* a call of a validator or an encoder: function, arguments, output

vars == <<user_data, replies, rendered, raised, fails, queue, running, arrived, call>>

(***************************************************************************)
(* Bounds of the model.                                                    *)
(***************************************************************************)
MaxFails == 2

\* the updates that arrive in a behaviour of the update dispatcher
MaxUpdates == 3

(***************************************************************************)
(* Python str helpers.                                                     *)
(***************************************************************************)
Ch(s, i) == SubSeq(s, i, i)

Digits == {"0", "1", "2", "3", "4", "5", "6", "7", "8", "9"}

Lower == {"a", "b", "c", "d", "e", "f", "g", "h", "i", "j", "k", "l", "m",
          "n", "o", "p", "q", "r", "s", "t", "u", "v", "w", "x", "y", "z"}

Upper == {"A", "B", "C", "D", "E", "F", "G", "H", "I", "J", "K", "L", "M",
          "N", "O", "P", "Q", "R", "S", "T", "U", "V", "W", "X", "Y", "Z"}

Letters == Lower \cup Upper

AlNum == Letters \cup Digits

Space == {" ", "\t", "\n", "\r", "\f"}

AllIn(s, set) == \A i \in 1..Len(s) : Ch(s, i) \in set

\* s.startswith(p)
startswith(s, p) == Len(s) >= Len(p) /\ SubSeq(s, 1, Len(p)) = p

\* s[n:]
Drop(s, n) == SubSeq(s, n + 1, Len(s))

\* bool(s.strip()): some character of s is not whitespace
strip_nonempty(s) == \E i \in 1..Len(s) : Ch(s, i) \notin Space

\* str.lower() on one character and on a string
LowerCh(c) ==
    CASE c = "A" -> "a" [] c = "B" -> "b" [] c = "C" -> "c" [] c = "D" -> "d"
      [] c = "E" -> "e" [] c = "F" -> "f" [] c = "G" -> "g" [] c = "H" -> "h"
      [] c = "I" -> "i" [] c = "J" -> "j" [] c = "K" -> "k" [] c = "L" -> "l"
      [] c = "M" -> "m" [] c = "N" -> "n" [] c = "O" -> "o" [] c = "P" -> "p"
      [] c = "Q" -> "q" [] c = "R" -> "r" [] c = "S" -> "s" [] c = "T" -> "t"
      [] c = "U" -> "u" [] c = "V" -> "v" [] c = "W" -> "w" [] c = "X" -> "x"
      [] c = "Y" -> "y" [] c = "Z" -> "z" [] OTHER -> c

RECURSIVE lower(_)
lower(s) ==
    IF Len(s) = 0 THEN ""
    ELSE IF Len(s) = 1 THEN LowerCh(s)
    ELSE lower(SubSeq(s, 1, Len(s) \div 2)) \o lower(Drop(s, Len(s) \div 2))

\* ''.join(c for c in s if c in keep)
RECURSIVE Keep(_, _)
Keep(s, keep) ==
    IF Len(s) = 0 THEN ""
    ELSE IF Len(s) = 1 THEN (IF s \in keep THEN s ELSE "")
    ELSE Keep(SubSeq(s, 1, Len(s) \div 2), keep) \o Keep(Drop(s, Len(s) \div 2), keep)

\* int(c) of one decimal digit, int(s) of a string of decimal digits
DigitVal(c) ==
    CASE c = "0" -> 0 [] c = "1" -> 1 [] c = "2" -> 2 [] c = "3" -> 3
      [] c = "4" -> 4 [] c = "5" -> 5 [] c = "6" -> 6 [] c = "7" -> 7
      [] c = "8" -> 8 [] c = "9" -> 9

RECURSIVE IntVal(_)
IntVal(s) ==
    IF s = "" THEN 0
    ELSE 10 * IntVal(SubSeq(s, 1, Len(s) - 1)) + DigitVal(Ch(s, Len(s)))

\* the positions of character c in s
Positions(s, c) == {i \in 1..Len(s) : Ch(s, i) = c}

\* a regular expression's "$" also matches just before a final newline
DollarForms(s) ==
    IF Len(s) >= 1 /\ Ch(s, Len(s)) = "\n"
    THEN {s, SubSeq(s, 1, Len(s) - 1)} ELSE {s}

\* the first position of s whose character is not in set (Len(s) + 1 if none)
FirstNotIn(s, set) ==
    LET out == {i \in 1..Len(s) : Ch(s, i) \notin set}
    IN  IF out = {} THEN Len(s) + 1
        ELSE CHOOSE i \in out : \A j \in out : i <= j

\* s.strip()
RECURSIVE lstrip(_)
lstrip(s) == IF s # "" /\ Ch(s, 1) \in Space THEN lstrip(Drop(s, 1)) ELSE s

RECURSIVE rstrip(_)
rstrip(s) ==
    IF s # "" /\ Ch(s, Len(s)) \in Space
    THEN rstrip(SubSeq(s, 1, Len(s) - 1)) ELSE s

strip(s) == rstrip(lstrip(s))

(***************************************************************************)
(* ValidationUtils (src/qr_generator/utils.py).                            *)
(***************************************************************************)

\* one label of a host name followed by a dot:
\* [A-Za-z0-9]([A-Za-z0-9-]{0,61}[A-Za-z0-9])?
HostLabel(l) ==
    /\ Len(l) >= 1
    /\ Len(l) <= 63
    /\ AllIn(l, AlNum \cup {"-"})
    /\ Ch(l, 1) \in AlNum
    /\ Ch(l, Len(l)) \in AlNum

\* the greatest element of a non-empty set of positions
Last(positions) == CHOOSE d \in positions : \A e \in positions : e <= d

\* the labels of host, each ending at one of the dots, and the top-level
\* label after the last dot
LabelsAndTld(host, dots, tld) ==
    /\ Len(tld) >= 2
    /\ Len(tld) <= 6
    /\ AllIn(tld, Letters)
    /\ \A d \in dots :
          HostLabel(SubSeq(host,
                           (IF \E e \in dots : e < d
                            THEN Last({e \in dots : e < d}) ELSE 0) + 1,
                           d - 1))

\* ([label]\.)+[A-Za-z]{2,6} against the whole of host
HostName(host) ==
    /\ Positions(host, ".") # {}
    /\ LabelsAndTld(host, Positions(host, "."),
                    Drop(host, Last(Positions(host, "."))))

\* (/.*)? against the whole of r ("." matches no newline)
PathMatch(r) == r = "" \/ (Ch(r, 1) = "/" /\ Positions(r, "\n") = {})

\* (:[0-9]{1,5})? taking k digits of rest, then the path
PortThenPath(rest, k) == k >= 1 /\ k <= 5 /\ PathMatch(Drop(rest, 1 + k))

\* (:[0-9]{1,5})?(/.*)? against the whole of rest
PortAndPath(rest) ==
    IF rest # "" /\ Ch(rest, 1) = ":"
    THEN PortThenPath(rest, FirstNotIn(Drop(rest, 1), Digits) - 1)
    ELSE PathMatch(rest)

\* the host is the longest prefix of body the host pattern can read
HostAndRest(body, k) == HostName(SubSeq(body, 1, k)) /\ PortAndPath(Drop(body, k))

\* url without the scheme (https?://)?, low being url in lower case
UrlBody(url, low) ==
    IF startswith(low, "https://") THEN Drop(url, 8)
    ELSE IF startswith(low, "http://") THEN Drop(url, 7)
    ELSE url

AfterScheme(body) == HostAndRest(body, FirstNotIn(body, AlNum \cup {"-", "."}) - 1)

UrlMatch(url) == AfterScheme(UrlBody(url, lower(url)))

validate_url(url) == \E f \in DollarForms(url) : UrlMatch(f)

\* [a-zA-Z0-9.-]+\.[a-zA-Z]{2,} against the whole of rest, split at its
\* last dot
DomainMatch(dom, tld) ==
    /\ Len(dom) >= 1
    /\ AllIn(dom, AlNum \cup {".", "-"})
    /\ Len(tld) >= 2
    /\ AllIn(tld, Letters)

DomainPart(rest, dots) ==
    /\ dots # {}
    /\ DomainMatch(SubSeq(rest, 1, Last(dots) - 1), Drop(rest, Last(dots)))

\* [a-zA-Z0-9._%+-]+ against the whole of loc
LocalPart(loc) ==
    Len(loc) >= 1 /\ AllIn(loc, AlNum \cup {".", "_", "%", "+", "-"})

LocalAndDomain(loc, rest) == LocalPart(loc) /\ DomainPart(rest, Positions(rest, "."))

SplitAt(email, ats) ==
    /\ Cardinality(ats) = 1
    /\ LocalAndDomain(SubSeq(email, 1, Last(ats) - 1), Drop(email, Last(ats)))

EmailMatch(email) == SplitAt(email, Positions(email, "@"))

\* a validator that looks at the conversation too, to see that
\* C27_SameOutputAgain depends on the validators reading their argument only
validate_email_while_idle(email) ==
    (\E f \in DollarForms(email) : EmailMatch(f)) /\ DOMAIN user_data["alice"] = {}

validate_email(email) == \E f \in DollarForms(email) : EmailMatch(f)

\* [0-9\s\-\(\)]{10,} against the whole of body
PhoneBody(body) ==
    Len(body) >= 10 /\ AllIn(body, Digits \cup Space \cup {"-", "(", ")"})

\* the pattern with the '+' counted among the ten characters, to see that
\* C13_PhoneTenAfterPlus depends on where the count starts
validate_phone_counting_plus(phone) ==
    /\ Len(phone) >= 10
    /\ AllIn(IF startswith(phone, "+") THEN Drop(phone, 1) ELSE phone,
             Digits \cup Space \cup {"-", "(", ")"})

\* ^[\+]?[0-9\s\-\(\)]{10,}$
validate_phone(phone) ==
    PhoneBody(IF startswith(phone, "+") THEN Drop(phone, 1) ELSE phone)

\* datetime's calendar
IsLeap(y) == (y % 4 = 0 /\ y % 100 # 0) \/ y % 400 = 0

DaysIn(y, m) ==
    IF m = 2 THEN (IF IsLeap(y) THEN 29 ELSE 28)
    ELSE IF m \in {4, 6, 9, 11} THEN 30 ELSE 31

\* the first alternative of a strptime directive that matches a prefix of s
\* and, when next is not "", is followed by next: the number of characters
\* it takes (0 if none matches).  two says whether the two-character
\* alternatives match, one whether the one-character alternative does.
Take(s, two, one, next) ==
    IF Len(s) >= 2 /\ two /\ (next = "" \/ startswith(Drop(s, 2), next)) THEN 2
    ELSE IF Len(s) >= 1 /\ one /\ (next = "" \/ startswith(Drop(s, 1), next)) THEN 1
    ELSE 0

\* %m: 1[0-2] | 0[1-9] | [1-9], followed by "-"
TakeMonth(s, a, b) ==
    Take(s, (a = "1" /\ b \in {"0", "1", "2"}) \/ (a = "0" /\ b \in Digits \ {"0"}),
         a \in Digits \ {"0"}, "-")

\* %d: 3[01] | [12]\d | 0[1-9] | [1-9] | " "[1-9]
TakeDay(s, c, d) ==
    IF Take(s, \/ (c = "3" /\ d \in {"0", "1"})
               \/ (c \in {"1", "2"} /\ d \in Digits)
               \/ (c = "0" /\ d \in Digits \ {"0"}),
            c \in Digits \ {"0"}, "") = 0
       /\ Len(s) >= 2 /\ c = " " /\ d \in Digits \ {"0"}
    THEN 2
    ELSE Take(s, \/ (c = "3" /\ d \in {"0", "1"})
                 \/ (c \in {"1", "2"} /\ d \in Digits)
                 \/ (c = "0" /\ d \in Digits \ {"0"}),
              c \in Digits \ {"0"}, "")

\* the day is the whole of s2 and a day of the month
DayMatch(year, month, s2, nds) ==
    /\ nds > 0
    /\ Len(s2) = nds
    /\ year >= 1
    /\ IntVal(strip(SubSeq(s2, 1, nds))) <= DaysIn(year, month)

MonthAndDay(year, s1, nm) ==
    /\ nm > 0
    /\ DayMatch(year, IntVal(SubSeq(s1, 1, nm)), Drop(s1, nm + 1),
                TakeDay(Drop(s1, nm + 1), Ch(Drop(s1, nm + 1), 1), Ch(Drop(s1, nm + 1), 2)))

\* datetime.strptime(date_str, '%Y-%m-%d') does not raise
validate_date(date_str) ==
    /\ Len(date_str) >= 5
    /\ AllIn(SubSeq(date_str, 1, 4), Digits)
    /\ Ch(date_str, 5) = "-"
    /\ MonthAndDay(IntVal(SubSeq(date_str, 1, 4)), Drop(date_str, 5),
                   TakeMonth(Drop(date_str, 5), Ch(date_str, 6), Ch(date_str, 7)))

\* %H: 2[0-3] | [0-1]\d | \d, followed by ":"
TakeHour(s, a, b) ==
    Take(s, (a = "2" /\ b \in {"0", "1", "2", "3"}) \/ (a \in {"0", "1"} /\ b \in Digits),
         a \in Digits, ":")

\* %M: [0-5]\d | \d
TakeMinute(s, c, d) ==
    Take(s, c \in {"0", "1", "2", "3", "4", "5"} /\ d \in Digits, c \in Digits, "")

MinuteMatch(s2, nm) == nm > 0 /\ Len(s2) = nm

HourAndMinute(time_str, nh) ==
    /\ nh > 0
    /\ MinuteMatch(Drop(time_str, nh + 1),
                   TakeMinute(Drop(time_str, nh + 1),
                              Ch(time_str, nh + 2), Ch(time_str, nh + 3)))

\* datetime.strptime(time_str, '%H:%M') does not raise
validate_time(time_str) ==
    HourAndMinute(time_str, TakeHour(time_str, Ch(time_str, 1), Ch(time_str, 2)))

\* float(s) for decimal literals: surrounding whitespace, a sign, digits and
\* at most one point.  (The exponent, underscore, inf and nan forms that
\* float() also reads are not among the texts of this model.)  The integer
\* part saturates at 1000, above every bound a validator compares it with.
Saturated(sig) == IF Len(sig) > 3 THEN 1000 ELSE IntVal(sig)

\* the digits ip before the point, and rest from the point on
FloatParts(neg, ip, rest, fp) ==
    [ok   |-> /\ rest = "" \/ Ch(rest, 1) = "."
              /\ AllIn(fp, Digits)
              /\ ip # "" \/ fp # "",
     neg  |-> neg,
     int  |-> Saturated(Drop(ip, FirstNotIn(ip, {"0"}) - 1)),
     frac |-> \E i \in 1..Len(fp) : Ch(fp, i) # "0"]

FloatSplit(neg, u, k) ==
    FloatParts(neg, SubSeq(u, 1, k), Drop(u, k),
               IF Drop(u, k) = "" THEN "" ELSE Drop(u, k + 1))

FloatUnsigned(neg, u) == FloatSplit(neg, u, FirstNotIn(u, Digits) - 1)

FloatSigned(t) ==
    FloatUnsigned(startswith(t, "-"),
                  IF startswith(t, "-") \/ startswith(t, "+") THEN Drop(t, 1) ELSE t)

ParseFloat(s) == FloatSigned(strip(s))

\* -180 <= value <= 180
InDegrees(f) == f.ok /\ (f.int < 180 \/ (f.int = 180 /\ ~f.frac))

\* float(coord) without the range test, to see that C12_Lat200Rejected
\* depends on the range
validate_coordinate_any_number(coord) == ParseFloat(coord).ok

\* -180 <= float(coord) <= 180, False on ValueError
validate_coordinate(coord) == InDegrees(ParseFloat(coord))

\* value >= 0
NotNegative(f) == f.ok /\ (~f.neg \/ (f.int = 0 /\ ~f.frac))

\* float(amount) without the test of the sign, to see that C25_PaypalAmount
\* depends on it
validate_amount_any_number(amount) == ParseFloat(amount).ok

\* float(amount) >= 0, False on ValueError
validate_amount(amount) == NotNegative(ParseFloat(amount))


(***************************************************************************)
(* The text catalog (Localization, src/bot.py).  The locale files are      *)
(* loaded from LOCALES_DIR at start-up; the model fixes two locales: a     *)
(* complete "en" and a partial "ru" whose missing keys show get_text's     *)
(* placeholder.                                                            *)
(***************************************************************************)
DEFAULT_LANGUAGE == "en"

DataTypes == <<"url", "text", "email", "phone", "wifi", "location", "sms",
               "whatsapp", "vcard", "event", "paypal", "crypto", "youtube",
               "social">>

DataTypeSet == {DataTypes[i] : i \in 1..Len(DataTypes)}

translations ==
    [en |-> [language_name    |-> "English",
             create_qr        |-> "Create QR",
             help             |-> "Help",
             language         |-> "Language",
             back             |-> "Back",
             cancel           |-> "Cancel",
             skip             |-> "Skip",
             data_type_url    |-> "URL",
             data_type_text   |-> "Text",
             data_type_email  |-> "Email",
             data_type_phone  |-> "Phone",
             data_type_wifi   |-> "WiFi",
             data_type_location |-> "Location",
             data_type_sms    |-> "SMS",
             data_type_whatsapp |-> "WhatsApp",
             data_type_vcard  |-> "vCard",
             data_type_event  |-> "Event",
             data_type_paypal |-> "PayPal",
             data_type_crypto |-> "Crypto",
             data_type_youtube |-> "YouTube",
             data_type_social |-> "Social",
             encryption_wpa   |-> "WPA/WPA2",
             encryption_wep   |-> "WEP",
             encryption_none  |-> "No password",
             crypto_btc       |-> "Bitcoin (BTC)",
             crypto_eth       |-> "Ethereum (ETH)",
             crypto_usdt      |-> "Tether (USDT)",
             social_instagram |-> "Instagram",
             social_tiktok    |-> "TikTok",
             social_facebook  |-> "Facebook",
             social_linkedin  |-> "LinkedIn",
             social_twitter   |-> "Twitter"],
     ru |-> [language_name    |-> "Russkiy",
             create_qr        |-> "Sozdat QR",
             cancel           |-> "Otmena",
             skip             |-> "Propustit",
             data_type_url    |-> "Ssylka",
             data_type_paypal |-> "PayPal",
             data_type_crypto |-> "Kripto"]]

\* Localization.available_languages: code -> translations.get('language_name', code)
available_languages ==
    [l \in DOMAIN translations |->
        IF "language_name" \in DOMAIN translations[l]
        THEN translations[l]["language_name"] ELSE l]

\* Localization.get_text
get_text(lang_code, key) ==
    LET code == IF lang_code \notin DOMAIN translations
                THEN DEFAULT_LANGUAGE ELSE lang_code
    IN  IF code \in DOMAIN translations
        THEN (IF key \in DOMAIN translations[code]
              THEN translations[code][key] ELSE "[" \o key \o "]")
        ELSE "[" \o key \o "]"


(***************************************************************************)
(* DataTemplates (src/qr_generator/templates.py).                          *)
(***************************************************************************)
create_url(url) ==
    IF ~(startswith(url, "http://") \/ startswith(url, "https://"))
    THEN "https://" \o url ELSE url

create_text(text) == text

create_email(address) == "mailto:" \o address

\* a cleaning that also keeps the hyphens, to see that C14_PhonePayload
\* depends on what create_phone keeps
create_phone_keeping_hyphens(phone) == "tel:" \o Keep(phone, Digits \cup {"+", "-"})

create_phone(phone) == "tel:" \o Keep(phone, Digits \cup {"+"})

\* an encoder that looks at the password only, to see that C23_WifiPayload
\* depends on the test of the encryption
create_wifi_by_password(ssid, password, encryption) ==
    IF password = ""
    THEN "WIFI:T:nopass;S:" \o ssid \o ";;"
    ELSE "WIFI:T:" \o encryption \o ";S:" \o ssid \o ";P:" \o password \o ";;"

create_wifi(ssid, password, encryption) ==
    IF encryption = "nopass" \/ password = ""
    THEN "WIFI:T:nopass;S:" \o ssid \o ";;"
    ELSE "WIFI:T:" \o encryption \o ";S:" \o ssid \o ";P:" \o password \o ";;"

create_location(latitude, longitude) == "geo:" \o latitude \o "," \o longitude

\* an encoder that drops the text, to see that C15_SmsPayload depends on
\* the branch on the text
create_sms_without_text(phone, text) == "sms:" \o Keep(phone, Digits \cup {"+"})

create_sms(phone, text) ==
    LET clean_phone == Keep(phone, Digits \cup {"+"})
    IN  IF text # "" THEN "smsto:" \o clean_phone \o ":" \o text
        ELSE "sms:" \o clean_phone

create_whatsapp(phone, text) ==
    LET clean_phone == Keep(Keep(phone, Digits \cup {"+"}), Digits)
    IN  IF text # "" THEN "https://wa.me/" \o clean_phone \o "?text=" \o text
        ELSE "https://wa.me/" \o clean_phone

\* The structured record vobject serializes: the lines the code adds, in the
\* order it adds them, between the card's BEGIN and END lines.
create_vcard(name, company, phone, email, website) ==
    "BEGIN:VCARD\nVERSION:3.0\n"
    \o "N:" \o name \o ";" \o name \o ";;;\n"
    \o "FN:" \o name \o "\n"
    \o (IF company # "" THEN "ORG:" \o company \o "\n" ELSE "")
    \o (IF phone # "" THEN "TEL;TYPE=WORK:" \o phone \o "\n" ELSE "")
    \o (IF email # "" THEN "EMAIL;TYPE=WORK:" \o email \o "\n" ELSE "")
    \o (IF website # "" THEN "URL:" \o website \o "\n" ELSE "")
    \o "END:VCARD\n"

\* the except branch of create_vcard: the plain text it returns when the
\* serialization raises
create_vcard_fallback(name, company, phone, email, website) ==
    "Name: " \o name
    \o (IF company # "" THEN "\nCompany: " \o company ELSE "")
    \o (IF phone # "" THEN "\nPhone: " \o phone ELSE "")
    \o (IF email # "" THEN "\nEmail: " \o email ELSE "")
    \o (IF website # "" THEN "\nWebsite: " \o website ELSE "")

\* the indentation the triple-quoted literal carries on its continuation lines
EventIndent == "                        "

\* str.replace(old, '') for a one-character old
Remove(s, old) == Keep(s, {Ch(s, i) : i \in 1..Len(s)} \ {old})

create_event(title, date, time, location) ==
    LET date_str     == Remove(date, "-")
        datetime_str == IF time # "" THEN date_str \o "T" \o Remove(time, ":") \o "00"
                        ELSE date_str
    IN  "BEGIN:VCALENDAR\n"
        \o EventIndent \o "VERSION:2.0\n"
        \o EventIndent \o "BEGIN:VEVENT\n"
        \o EventIndent \o "SUMMARY:" \o title \o "\n"
        \o EventIndent \o "DTSTART:" \o datetime_str \o "\n"
        \o EventIndent \o "LOCATION:" \o location \o "\n"
        \o EventIndent \o "END:VEVENT\n"
        \o EventIndent \o "END:VCALENDAR"

\* the except branch of create_event
create_event_fallback(title, date, time, location) ==
    "Event: " \o title \o "\nDate: " \o date
    \o (IF time # "" THEN "\nTime: " \o time ELSE "")
    \o (IF location # "" THEN "\nLocation: " \o location ELSE "")

create_paypal(email, amount) ==
    IF amount # "" THEN "https://paypal.me/" \o email \o "/" \o amount
    ELSE "https://paypal.me/" \o email

create_crypto(address, currency) ==
    LET crypto_prefix ==
            CASE currency = "BTC"  -> "bitcoin"
              [] currency = "ETH"  -> "ethereum"
              [] currency = "USDT" -> "tether"
              [] OTHER -> lower(currency)
    IN  crypto_prefix \o ":" \o address

create_youtube(url) ==
    IF ~(startswith(url, "http://") \/ startswith(url, "https://"))
    THEN "https://" \o url ELSE url

create_social(username, platform) ==
    CASE platform = "instagram" -> "https://instagram.com/" \o username
      [] platform = "tiktok"    -> "https://tiktok.com/@" \o username
      [] platform = "facebook"  -> "https://facebook.com/" \o username
      [] platform = "linkedin"  -> "https://linkedin.com/in/" \o username
      [] platform = "twitter"   -> "https://twitter.com/" \o username
      [] OTHER -> "https://" \o platform \o ".com/" \o username


(***************************************************************************)
(* The users and the texts a user sends.                                   *)
(***************************************************************************)
Users == {"alice", "bob"}

\* a text longer than validate_input's limit for the text type
Ten == "0123456789"

Hundred == Ten \o Ten \o Ten \o Ten \o Ten \o Ten \o Ten \o Ten \o Ten \o Ten

LongText == Hundred \o Hundred \o Hundred \o Hundred \o Hundred \o "x"

FreeTexts ==
    {"Home", "secret123", "12.34", "100", "200", "56.78", "555-1234567",
     "+123456789",
     "+1 (234) 567-890", "hi", "a@b.co", "example.com", "https://example.com",
     "HTTP://Example.com", "2024-01-05", "2024-1-5", "10:30", "5", "-1",
     "Dogecoin", " ", LongText}

\* every label of the catalog, and two placeholders of the partial locale
LabelTexts ==
    UNION {{translations[l][k] : k \in DOMAIN translations[l]} :
           l \in DOMAIN translations}
    \cup {"[back]", "[crypto_btc]"}

Texts == FreeTexts \cup LabelTexts

\* the validators' verdicts on the texts of the model, computed once; the
\* handlers look the verdict on their input up here
Verdict ==
    [t \in Texts |->
        [url        |-> validate_url(t),
         email      |-> validate_email(t),
         phone      |-> validate_phone(t),
         date       |-> validate_date(t),
         time       |-> validate_time(t),
         coordinate |-> validate_coordinate(t),
         amount     |-> validate_amount(t),
         nonblank   |-> strip_nonempty(t)]]

\* the labels of the keyboard shown at the choice steps of crypto and social
ChoiceKeys(data_type) ==
    IF data_type = "crypto" THEN {"crypto_btc", "crypto_eth", "crypto_usdt"}
    ELSE IF data_type = "social"
    THEN {"social_instagram", "social_tiktok", "social_facebook",
          "social_linkedin", "social_twitter"}
    ELSE {}

(***************************************************************************)
(* Python dict helpers and the result of a handler.                        *)
(***************************************************************************)
Has(d, k) == k \in DOMAIN d

Get(d, k, default) == IF k \in DOMAIN d THEN d[k] ELSE default

Put(d, k, v) == [x \in DOMAIN d \cup {k} |-> IF x = k THEN v ELSE d[x]]

Pop(d, k) == [x \in DOMAIN d \ {k} |-> d[x]]

EmptyDict == [x \in {} |-> ""]

\* what a handler leaves behind: the user's dict, the replies it sent, the
\* payloads it handed to the renderer, whether it ended in an exception
Result(ud, msgs, payloads, exc) ==
    [ud |-> ud, replies |-> msgs, rendered |-> payloads, raised |-> exc]

\* the replies the code sends as literals rather than through the catalog
E_DATA_GENERATION == "E_DATA_GENERATION"
E_EMPTY_DATA      == "E_EMPTY_DATA"
E_QR_GENERATION   == "E_QR_GENERATION"
E_WIFI_GENERATION == "E_WIFI_GENERATION"
QR_PHOTO          == "QR_PHOTO"

\* QRBot.get_user_lang
get_user_lang(ud) == Get(ud, "language", DEFAULT_LANGUAGE)

(***************************************************************************)
(* QRBot: generating and sending the QR code.  render_ok says whether the  *)
(* rendering collaborator (QRGenerator.generate_qr and reply_photo)        *)
(* returns or raises; encoder says what the payload encoder (a template of *)
(* DataTemplates) does if it is called: "ok" for its payload, "raises" for *)
(* an internal exception, "empty" for no payload.                          *)
(***************************************************************************)
generate_and_send_qr(data, render_ok) ==
    IF data = "" \/ strip(data) = ""
    THEN [replies |-> <<E_EMPTY_DATA>>, rendered |-> <<>>]
    ELSE [replies  |-> <<"generating_qr">>
                       \o (IF render_ok THEN <<QR_PHOTO>> ELSE <<E_QR_GENERATION>>),
          rendered |-> <<data>>]

\* cancel_operation without its first pop, to see that C4_CancelDestroys
\* depends on it
cancel_operation_keeping_type(ud) ==
    Result(Pop(Pop(ud, "wifi_data"), "multi_step_data"),
           <<"operation_cancelled">>, <<>>, FALSE)

\* QRBot.cancel_operation
cancel_operation(ud) ==
    Result(Pop(Pop(Pop(ud, "current_data_type"), "wifi_data"), "multi_step_data"),
           <<"operation_cancelled">>, <<>>, FALSE)

\* QRBot.create_qr
create_qr(ud) ==
    Result(Pop(Pop(Pop(Pop(ud, "current_data_type"), "qr_data"), "wifi_data"),
               "multi_step_data"),
           <<"select_data_type">>, <<>>, FALSE)

\* QRBot.show_main_menu
show_main_menu(ud) == Result(ud, <<"main_menu">>, <<>>, FALSE)

\* QRBot.help_command
help_command(ud) == Result(ud, <<"help_text">>, <<>>, FALSE)

\* QRBot.language_command
language_command(ud) == Result(ud, <<"select_language">>, <<>>, FALSE)

\* QRBot.start
start(ud) == Result(ud, <<"welcome">>, <<>>, FALSE)

\* QRBot.cancel: the /cancel command
cancel(ud) ==
    Result(EmptyDict, <<"Operation cancelled.">> \o start(EmptyDict).replies,
           <<>>, FALSE)

\* QRBot.handle_language_selection
handle_language_selection(ud, language_name) ==
    LET codes == {l \in DOMAIN available_languages :
                    available_languages[l] = language_name}
        code  == IF codes # {} THEN CHOOSE l \in codes : TRUE ELSE DEFAULT_LANGUAGE
    IN  Result(Put(ud, "language", code), <<"language_changed">>, <<>>, FALSE)


(***************************************************************************)
(* QRBot: the generic multi-step dialogue.                                 *)
(***************************************************************************)
MultiStepTypes ==
    {"location", "sms", "whatsapp", "vcard", "event", "paypal", "crypto", "social"}

\* the value Python's None takes where a data type is expected
None == "None"

\* a table of step counts that is one too high everywhere, to see that
\* C9_StepInRange depends on the table
total_steps_one_more(data_type) ==
    CASE data_type \in {"location", "sms", "whatsapp", "paypal", "crypto", "social"} -> 3
      [] data_type = "vcard" -> 6
      [] data_type = "event" -> 5
      [] OTHER -> 2

\* total_steps.get(data_type, 1) of handle_multi_step_input
total_steps(data_type) ==
    CASE data_type \in {"location", "sms", "whatsapp", "paypal", "crypto", "social"} -> 2
      [] data_type = "vcard" -> 5
      [] data_type = "event" -> 4
      [] OTHER -> 1

\* validation_rules of validate_multi_step_input: the rule of a step, or
\* "none" when the table has no entry for it
validation_rule(data_type, step) ==
    CASE data_type = "location" /\ step \in {1, 2} -> "coordinate"
      [] data_type \in {"sms", "whatsapp"} /\ step = 1 -> "phone"
      [] data_type \in {"sms", "whatsapp"} /\ step = 2 -> "text"
      [] data_type = "vcard" /\ step = 1 -> "required"
      [] data_type = "vcard" /\ step = 2 -> "optional"
      [] data_type = "vcard" /\ step = 3 -> "phone_optional"
      [] data_type = "vcard" /\ step = 4 -> "email_optional"
      [] data_type = "vcard" /\ step = 5 -> "url_optional"
      [] data_type = "event" /\ step = 1 -> "required"
      [] data_type = "event" /\ step = 2 -> "date"
      [] data_type = "event" /\ step = 3 -> "time_optional"
      [] data_type = "event" /\ step = 4 -> "optional"
      [] data_type = "paypal" /\ step = 1 -> "email"
      [] data_type = "paypal" /\ step = 2 -> "amount_optional"
      [] data_type \in {"crypto", "social"} /\ step = 1 -> "required"
      [] OTHER -> "none"

\* the message of a 'required' rule (a literal in the table)
required_message(data_type) ==
    CASE data_type = "vcard"  -> "E_NAME_REQUIRED"
      [] data_type = "event"  -> "E_TITLE_REQUIRED"
      [] data_type = "crypto" -> "E_ADDRESS_REQUIRED"
      [] OTHER                -> "E_USERNAME_REQUIRED"

\* the if-chain of validate_multi_step_input on a rule and the validators'
\* verdicts on the input: the error it replies with, or "" when it returns
\* True
rule_error(validation_type, data_type, verdict) ==
    CASE validation_type = "required" /\ ~verdict.nonblank
            -> required_message(data_type)
      [] validation_type = "phone" /\ ~verdict.phone -> "invalid_phone"
      [] validation_type = "phone_optional" /\ verdict.nonblank /\ ~verdict.phone
            -> "invalid_phone"
      [] validation_type = "email" /\ ~verdict.email -> "invalid_email"
      [] validation_type = "email_optional" /\ verdict.nonblank /\ ~verdict.email
            -> "invalid_email"
      [] validation_type = "coordinate" /\ ~verdict.coordinate
            -> "invalid_coordinate"
      [] validation_type = "date" /\ ~verdict.date -> "invalid_date"
      [] validation_type = "time_optional" /\ verdict.nonblank /\ ~verdict.time
            -> "invalid_time"
      [] validation_type = "amount_optional" /\ verdict.nonblank /\ ~verdict.amount
            -> "invalid_number"
      [] validation_type = "url_optional" /\ verdict.nonblank /\ ~verdict.url
            -> "invalid_url"
      [] OTHER -> ""

\* QRBot.validate_multi_step_input: the error it replies with, or "" when it
\* returns True
validate_multi_step_input(user_input, data_type, step) ==
    rule_error(validation_rule(data_type, step), data_type, Verdict[user_input])

\* the replies that report a rejected input
ValidationErrors ==
    {"E_NAME_REQUIRED", "E_TITLE_REQUIRED", "E_ADDRESS_REQUIRED",
     "E_USERNAME_REQUIRED", "invalid_phone", "invalid_email",
     "invalid_coordinate", "invalid_date", "invalid_time", "invalid_number",
     "invalid_url", "text_too_long"}

\* the templates that catch their own exceptions and return a plain text
SelfCatching == {"vcard", "event"}

\* QRBot.generate_multi_step_qr_data; an exception (a KeyError on a missing
\* input, or one a template lets out) is caught and gives "", as does a
\* template that returns no payload
generate_multi_step_qr_data(data_type, inputs, encoder) ==
    CASE 1 \notin DOMAIN inputs /\ data_type \in MultiStepTypes \cup {"youtube"} -> ""
      [] encoder = "empty" /\ data_type \in MultiStepTypes \cup {"youtube"} -> ""
      [] encoder = "raises" /\ data_type \in (MultiStepTypes \cup {"youtube"}) \ SelfCatching
            -> ""
      [] data_type = "vcard" /\ encoder = "raises" ->
            create_vcard_fallback(inputs[1], Get(inputs, 2, ""), Get(inputs, 3, ""),
                                  Get(inputs, 4, ""), Get(inputs, 5, ""))
      [] data_type = "event" /\ encoder = "raises" ->
            IF 2 \in DOMAIN inputs
            THEN create_event_fallback(inputs[1], inputs[2], Get(inputs, 3, ""),
                                       Get(inputs, 4, ""))
            ELSE ""
      [] data_type = "location" ->
            IF 2 \in DOMAIN inputs THEN create_location(inputs[1], inputs[2]) ELSE ""
      [] data_type = "sms" -> create_sms(inputs[1], Get(inputs, 2, ""))
      [] data_type = "whatsapp" -> create_whatsapp(inputs[1], Get(inputs, 2, ""))
      [] data_type = "vcard" ->
            create_vcard(inputs[1], Get(inputs, 2, ""), Get(inputs, 3, ""),
                         Get(inputs, 4, ""), Get(inputs, 5, ""))
      [] data_type = "event" ->
            IF 2 \in DOMAIN inputs
            THEN create_event(inputs[1], inputs[2], Get(inputs, 3, ""), Get(inputs, 4, ""))
            ELSE ""
      [] data_type = "paypal" -> create_paypal(inputs[1], Get(inputs, 2, ""))
      [] data_type = "crypto" -> create_crypto(inputs[1], Get(inputs, 2, "BTC"))
      [] data_type = "social" -> create_social(inputs[1], Get(inputs, 2, "instagram"))
      [] data_type = "youtube" -> create_youtube(inputs[1])
      [] OTHER -> ""

\* QRBot.ask_for_multi_step_input: the prompt it replies with, if any
ask_for_multi_step_input(ud) ==
    LET multi_data == Get(ud, "multi_step_data", EmptyDict)
        data_type  == Get(multi_data, "type", None)
        step       == Get(multi_data, "step", 1)
        Prompt(field) == <<"enter_" \o data_type \o "_" \o field>>
    IN  CASE data_type = "location" /\ step = 1 -> Prompt("lat")
          [] data_type = "location" /\ step = 2 -> Prompt("lon")
          [] data_type \in {"sms", "whatsapp"} /\ step = 1 -> Prompt("phone")
          [] data_type \in {"sms", "whatsapp"} /\ step = 2 -> Prompt("text")
          [] data_type = "vcard" /\ step = 1 -> Prompt("name")
          [] data_type = "vcard" /\ step = 2 -> Prompt("company")
          [] data_type = "vcard" /\ step = 3 -> Prompt("phone")
          [] data_type = "vcard" /\ step = 4 -> Prompt("email")
          [] data_type = "vcard" /\ step = 5 -> Prompt("website")
          [] data_type = "event" /\ step = 1 -> Prompt("title")
          [] data_type = "event" /\ step = 2 -> Prompt("date")
          [] data_type = "event" /\ step = 3 -> Prompt("time")
          [] data_type = "event" /\ step = 4 -> Prompt("location")
          [] data_type = "paypal" /\ step = 1 -> Prompt("email")
          [] data_type = "paypal" /\ step = 2 -> Prompt("amount")
          [] data_type = "crypto" /\ step = 1 -> Prompt("address")
          [] data_type = "crypto" /\ step = 2 -> Prompt("currency")
          [] data_type = "social" /\ step = 1 -> Prompt("username")
          [] data_type = "social" /\ step = 2 -> Prompt("platform")
          [] OTHER -> <<>>

\* AfterStore without the cleanup of its last branch, to see that
\* C5_CompletionClears depends on it
AfterStore_keeping_session(ud, multi_data, render_ok, encoder) ==
    LET data_type == Get(multi_data, "type", None)
        step      == Get(multi_data, "step", 1)
    IN  IF step < total_steps(data_type)
        THEN LET next == Put(ud, "multi_step_data", Put(multi_data, "step", step + 1))
             IN  Result(next, ask_for_multi_step_input(next), <<>>, FALSE)
        ELSE LET qr_data == generate_multi_step_qr_data(data_type, multi_data["inputs"], encoder)
                 sent    == IF qr_data # ""
                            THEN generate_and_send_qr(qr_data, render_ok)
                            ELSE [replies |-> <<E_DATA_GENERATION>>, rendered |-> <<>>]
             IN  Result(ud, sent.replies \o <<"qr_ready">>, sent.rendered, FALSE)

\* handle_multi_step_input after the input is stored: ask for the next
\* input, or generate the QR code and clean up
AfterStore(ud, multi_data, render_ok, encoder) ==
    LET data_type == Get(multi_data, "type", None)
        step      == Get(multi_data, "step", 1)
    IN  IF step < total_steps(data_type)
        THEN LET next == Put(ud, "multi_step_data", Put(multi_data, "step", step + 1))
             IN  Result(next, ask_for_multi_step_input(next), <<>>, FALSE)
        ELSE LET qr_data == generate_multi_step_qr_data(data_type, multi_data["inputs"], encoder)
                 sent    == IF qr_data # ""
                            THEN generate_and_send_qr(qr_data, render_ok)
                            ELSE [replies |-> <<E_DATA_GENERATION>>, rendered |-> <<>>]
             IN  Result(Pop(Pop(ud, "multi_step_data"), "current_data_type"),
                        sent.replies \o <<"qr_ready">>, sent.rendered, FALSE)

\* an assignment that also overwrites the first stored input, to see that
\* C11_StoredFieldsFrozen depends on the store touching one step only
StoreInput_overwriting(multi_data, step, value) ==
    Put(multi_data, "inputs", Put(Put(multi_data["inputs"], step, value), 1, value))

\* an assignment that stores nothing, to see that C10_FieldsArePassedSteps
\* depends on the store
StoreInput_nowhere(multi_data, step, value) == multi_data

\* multi_data['inputs'][step] = value
StoreInput(multi_data, step, value) ==
    Put(multi_data, "inputs", Put(multi_data["inputs"], step, value))

\* handle_multi_step_input forgetting the collected inputs when it rejects
\* one, to see that C3_RetrySameStep depends on the rejection's early return
handle_multi_step_input_forgetful(ud, user_text, render_ok, encoder) ==
    LET lang       == get_user_lang(ud)
        multi_data == Get(ud, "multi_step_data", EmptyDict)
        data_type  == Get(multi_data, "type", None)
        step       == Get(multi_data, "step", 1)
        error      == validate_multi_step_input(user_text, data_type, step)
    IN  IF user_text = get_text(lang, "skip")
        THEN (IF ~Has(multi_data, "inputs")
              THEN Result(ud, <<>>, <<>>, TRUE)
              ELSE AfterStore(ud, StoreInput(multi_data, step, ""), render_ok, encoder))
        ELSE IF user_text = get_text(lang, "cancel")
        THEN cancel_operation(ud)
        ELSE IF error # ""
        THEN Result(Put(ud, "multi_step_data", Put(multi_data, "inputs", EmptyDict)),
                    <<error>>, <<>>, FALSE)
        ELSE IF ~Has(multi_data, "inputs")
        THEN Result(ud, <<>>, <<>>, TRUE)
        ELSE AfterStore(ud, StoreInput(multi_data, step, user_text), render_ok, encoder)

\* QRBot.handle_multi_step_input
handle_multi_step_input(ud, user_text, render_ok, encoder) ==
    LET lang       == get_user_lang(ud)
        multi_data == Get(ud, "multi_step_data", EmptyDict)
        data_type  == Get(multi_data, "type", None)
        step       == Get(multi_data, "step", 1)
        error      == validate_multi_step_input(user_text, data_type, step)
    IN  IF user_text = get_text(lang, "skip")
        THEN (IF ~Has(multi_data, "inputs")
              THEN Result(ud, <<>>, <<>>, TRUE)
              ELSE AfterStore(ud, StoreInput(multi_data, step, ""), render_ok, encoder))
        ELSE IF user_text = get_text(lang, "cancel")
        THEN cancel_operation(ud)
        ELSE IF error # ""
        THEN Result(ud, <<error>>, <<>>, FALSE)
        ELSE IF ~Has(multi_data, "inputs")
        THEN Result(ud, <<>>, <<>>, TRUE)
        ELSE AfterStore(ud, StoreInput(multi_data, step, user_text), render_ok, encoder)

\* QRBot.handle_skip_input
handle_skip_input(ud, render_ok, encoder) ==
    handle_multi_step_input(ud, get_text(get_user_lang(ud), "skip"), render_ok, encoder)


(***************************************************************************)
(* QRBot: the wifi dialogue.                                               *)
(***************************************************************************)

\* QRBot.finalize_wifi_qr
finalize_wifi_qr(ud, render_ok, encoder) ==
    IF ~Has(ud, "wifi_data")
    THEN Result(ud, <<>>, <<>>, TRUE)
    ELSE LET wifi_data == ud["wifi_data"]
             qr_data   == create_wifi(wifi_data["ssid"],
                                      Get(wifi_data, "password", ""),
                                      Get(wifi_data, "encryption", "WPA"))
             sent      == generate_and_send_qr(qr_data, render_ok)
         IN  IF ~Has(wifi_data, "ssid") \/ encoder = "raises"
             THEN Result(ud, <<E_WIFI_GENERATION>>, <<>>, FALSE)
             ELSE IF qr_data = "" \/ encoder = "empty"
             THEN Result(ud, <<E_WIFI_GENERATION>>, <<>>, FALSE)
             ELSE Result(Pop(Pop(ud, "wifi_data"), "current_data_type"),
                         sent.replies \o <<"qr_ready">>, sent.rendered, FALSE)

\* QRBot.handle_wifi_input
handle_wifi_input(ud, user_text, render_ok, encoder) ==
    LET wifi_data    == ud["wifi_data"]
        current_step == Get(wifi_data, "step", None)
        lang         == get_user_lang(ud)
    IN  IF user_text = get_text(lang, "cancel")
        THEN Result(Pop(Pop(ud, "wifi_data"), "current_data_type"),
                    <<"operation_cancelled">>, <<>>, FALSE)
        ELSE IF current_step = "ssid"
        THEN Result(Put(ud, "wifi_data",
                        Put(Put(wifi_data, "ssid", user_text), "step", "encryption")),
                    <<"select_encryption">>, <<>>, FALSE)
        ELSE IF current_step = "password"
        THEN finalize_wifi_qr(
                 Put(ud, "wifi_data",
                     Put(Put(wifi_data, "password", user_text), "step", "final")),
                 render_ok, encoder)
        ELSE Result(ud, <<>>, <<>>, FALSE)

\* encryption_map.get(encryption_text, 'WPA') of handle_wifi_encryption
encryption_of(lang, encryption_text) ==
    CASE encryption_text = get_text(lang, "encryption_none") -> "nopass"
      [] encryption_text = get_text(lang, "encryption_wep")  -> "WEP"
      [] OTHER -> "WPA"

\* QRBot.handle_wifi_encryption; without a wifi session the dict it writes
\* to is a temporary one
handle_wifi_encryption(ud, encryption_text, render_ok, encoder) ==
    LET lang       == get_user_lang(ud)
        wifi_data  == Get(ud, "wifi_data", EmptyDict)
        encryption == encryption_of(lang, encryption_text)
        Keep_(wd)  == IF Has(ud, "wifi_data") THEN Put(ud, "wifi_data", wd) ELSE ud
    IN  IF encryption = "nopass"
        THEN finalize_wifi_qr(
                 Keep_(Put(Put(wifi_data, "encryption", encryption), "step", "final")),
                 render_ok, encoder)
        ELSE Result(Keep_(Put(Put(wifi_data, "encryption", encryption), "step", "password")),
                    <<"enter_wifi_password">>, <<>>, FALSE)

(***************************************************************************)
(* QRBot: the choice handlers of crypto and social.                        *)
(***************************************************************************)

\* crypto_map.get(crypto_text, 'BTC') of handle_crypto_selection
currency_of(lang, crypto_text) ==
    CASE crypto_text = get_text(lang, "crypto_usdt") -> "USDT"
      [] crypto_text = get_text(lang, "crypto_eth")  -> "ETH"
      [] OTHER -> "BTC"

\* social_map.get(social_text, 'instagram') of handle_social_selection
platform_of(lang, social_text) ==
    CASE social_text = get_text(lang, "social_twitter")  -> "twitter"
      [] social_text = get_text(lang, "social_linkedin") -> "linkedin"
      [] social_text = get_text(lang, "social_facebook") -> "facebook"
      [] social_text = get_text(lang, "social_tiktok")   -> "tiktok"
      [] OTHER -> "instagram"

\* the body shared by handle_crypto_selection and handle_social_selection:
\* store the canonical value as input 2, generate, clean up.  (The step the
\* code sets to 3 is dropped with the session before the handler returns.)
SelectChoice(ud, data_type, value, render_ok, encoder) ==
    LET multi_data == Get(ud, "multi_step_data", EmptyDict)
        inputs     == Put(multi_data["inputs"], 2, value)
        qr_data    == generate_multi_step_qr_data(data_type, inputs, encoder)
        sent       == IF qr_data # ""
                      THEN generate_and_send_qr(qr_data, render_ok)
                      ELSE [replies |-> <<>>, rendered |-> <<>>]
    IN  IF ~Has(multi_data, "inputs")
        THEN Result(ud, <<>>, <<>>, TRUE)
        ELSE Result(Pop(Pop(ud, "multi_step_data"), "current_data_type"),
                    sent.replies \o <<"qr_ready">>, sent.rendered, FALSE)

\* QRBot.handle_crypto_selection
handle_crypto_selection(ud, crypto_text, render_ok, encoder) ==
    SelectChoice(ud, "crypto", currency_of(get_user_lang(ud), crypto_text), render_ok, encoder)

\* QRBot.handle_social_selection
handle_social_selection(ud, social_text, render_ok, encoder) ==
    SelectChoice(ud, "social", platform_of(get_user_lang(ud), social_text), render_ok, encoder)

(***************************************************************************)
(* QRBot: the single-input data types.                                     *)
(***************************************************************************)
SingleTypes == {"url", "text", "email", "phone", "youtube"}

MaxTextLen == 500

\* the if-chain of validate_input on the validators' verdicts on the input
input_error(data_type, length, verdict) ==
    CASE data_type = "url" /\ ~verdict.url -> "invalid_url"
      [] data_type = "email" /\ ~verdict.email -> "invalid_email"
      [] data_type = "text" /\ length > MaxTextLen -> "text_too_long"
      [] data_type = "phone" /\ ~verdict.phone -> "invalid_phone"
      [] data_type = "youtube" /\ ~verdict.url -> "invalid_url"
      [] OTHER -> ""

\* QRBot.validate_input: the error it replies with, or "" when it returns True
validate_input(user_input, data_type) ==
    input_error(data_type, Len(user_input), Verdict[user_input])

\* QRBot.generate_qr_data; an exception raised inside the template is caught
\* and gives the input back
generate_qr_data(data_type, user_input, encoder) ==
    CASE data_type \in SingleTypes /\ encoder = "raises" -> user_input
      [] data_type \in SingleTypes /\ encoder = "empty" -> ""
      [] data_type = "url"     -> create_url(user_input)
      [] data_type = "text"    -> create_text(user_input)
      [] data_type = "email"   -> create_email(user_input)
      [] data_type = "phone"   -> create_phone(user_input)
      [] data_type = "youtube" -> create_youtube(user_input)
      [] OTHER -> user_input

\* QRBot.handle_single_input
handle_single_input(ud, user_text, render_ok, encoder) ==
    LET data_type == Get(ud, "current_data_type", None)
        error     == validate_input(user_text, data_type)
        qr_data   == generate_qr_data(data_type, user_text, encoder)
        sent      == generate_and_send_qr(qr_data, render_ok)
    IN  IF error # ""
        THEN Result(ud, <<error>>, <<>>, FALSE)
        ELSE IF qr_data = ""
        THEN Result(ud, <<E_DATA_GENERATION>>, <<>>, FALSE)
        ELSE Result(Pop(ud, "current_data_type"),
                    sent.replies \o <<"qr_ready">>, sent.rendered, FALSE)


(***************************************************************************)
(* QRBot: selecting a data type, and the dispatcher of text messages.      *)
(***************************************************************************)

\* the catalog keys of the data types' labels
data_type_key == [i \in 1..Len(DataTypes) |-> "data_type_" \o DataTypes[i]]

\* the label of the i-th data type in the user's language
data_type_label(lang, i) == get_text(lang, data_type_key[i])

\* data_type_map.get(user_text): the last type whose label is user_text
data_type_of(lang, user_text) ==
    LET hits == {i \in 1..Len(DataTypes) : data_type_label(lang, i) = user_text}
    IN  IF hits = {} THEN None
        ELSE DataTypes[CHOOSE i \in hits : \A j \in hits : j <= i]

\* a selection that opens the session without recording the data type, to
\* see that C31_OneSessionShape depends on the assignment
handle_data_type_selection_untyped(ud, user_text) ==
    LET lang      == get_user_lang(ud)
        data_type == data_type_of(lang, user_text)
        multi     == Put(ud, "multi_step_data",
                         [type |-> data_type, step |-> 1, inputs |-> EmptyDict])
    IN  IF data_type = None
        THEN Result(ud, <<>>, <<>>, FALSE)
        ELSE IF data_type = "wifi"
        THEN Result(Put(ud, "wifi_data", [step |-> "ssid"]),
                    <<"enter_wifi_ssid">>, <<>>, FALSE)
        ELSE IF data_type \in MultiStepTypes
        THEN Result(multi, ask_for_multi_step_input(multi), <<>>, FALSE)
        ELSE Result(Put(ud, "current_data_type", data_type),
                    <<"enter_" \o data_type>>, <<>>, FALSE)

\* QRBot.handle_data_type_selection
handle_data_type_selection(ud, user_text) ==
    LET lang      == get_user_lang(ud)
        data_type == data_type_of(lang, user_text)
        typed     == Put(ud, "current_data_type", data_type)
        multi     == Put(typed, "multi_step_data",
                         [type |-> data_type, step |-> 1, inputs |-> EmptyDict])
    IN  IF data_type = None
        THEN Result(ud, <<>>, <<>>, FALSE)
        ELSE IF data_type = "wifi"
        THEN Result(Put(typed, "wifi_data", [step |-> "ssid"]),
                    <<"enter_wifi_ssid">>, <<>>, FALSE)
        ELSE IF data_type \in MultiStepTypes
        THEN Result(multi, ask_for_multi_step_input(multi), <<>>, FALSE)
        ELSE Result(typed, <<"enter_" \o data_type>>, <<>>, FALSE)

\* QRBot.handle_dynamic_text
handle_dynamic_text(ud, user_text, render_ok, encoder) ==
    LET lang == get_user_lang(ud)
        L(key) == get_text(lang, key)
    IN  IF Has(ud, "wifi_data")
        THEN handle_wifi_input(ud, user_text, render_ok, encoder)
        ELSE IF Has(ud, "multi_step_data")
        THEN handle_multi_step_input(ud, user_text, render_ok, encoder)
        ELSE IF user_text = L("create_qr") THEN create_qr(ud)
        ELSE IF user_text = L("help") THEN help_command(ud)
        ELSE IF user_text = L("language") THEN language_command(ud)
        ELSE IF \E i \in 1..Len(DataTypes) : user_text = data_type_label(lang, i)
        THEN handle_data_type_selection(ud, user_text)
        ELSE IF user_text = L("back") THEN show_main_menu(ud)
        ELSE IF user_text = L("cancel") THEN cancel_operation(ud)
        ELSE IF \E l \in DOMAIN available_languages : user_text = available_languages[l]
        THEN handle_language_selection(ud, user_text)
        ELSE IF user_text \in {L("encryption_wpa"), L("encryption_wep"), L("encryption_none")}
        THEN handle_wifi_encryption(ud, user_text, render_ok, encoder)
        ELSE IF user_text \in {L("crypto_btc"), L("crypto_eth"), L("crypto_usdt")}
        THEN handle_crypto_selection(ud, user_text, render_ok, encoder)
        ELSE IF user_text \in {L("social_instagram"), L("social_tiktok"),
                               L("social_facebook"), L("social_linkedin"),
                               L("social_twitter")}
        THEN handle_social_selection(ud, user_text, render_ok, encoder)
        ELSE IF user_text = L("skip") THEN handle_skip_input(ud, render_ok, encoder)
        ELSE IF Has(ud, "current_data_type")
        THEN handle_single_input(ud, user_text, render_ok, encoder)
        ELSE Result(ud, <<"use_buttons">>, <<>>, FALSE)

(***************************************************************************)
(* The state machine: one action per update the bot receives.              *)
(***************************************************************************)
\* the state after construction, but for the call
Constructed ==
    /\ user_data = [u \in Users |-> EmptyDict]
    /\ replies = <<>>
    /\ rendered = <<>>
    /\ raised = FALSE
    /\ fails = [u \in Users |-> 0]
    /\ queue = <<>>
    /\ running = {}
    /\ arrived = 0

\* no call of a validator or an encoder outside the handlers
Init == Constructed /\ call = [fn |-> "", args |-> <<>>, out |-> <<>>]

\* the event of user u left result r behind; events that end in a validation
\* error are counted, up to MaxFails in a row
Deliver(u, r) ==
    LET rejected == \E i \in 1..Len(r.replies) : r.replies[i] \in ValidationErrors
    IN  /\ rejected => fails[u] < MaxFails
        /\ user_data' = [user_data EXCEPT ![u] = r.ud]
        /\ replies' = r.replies
        /\ rendered' = r.rendered
        /\ raised' = r.raised
        /\ fails' = [fails EXCEPT ![u] = IF rejected THEN fails[u] + 1 ELSE 0]
        /\ UNCHANGED <<queue, running, arrived, call>>

\* At a step that has no format rule every text but the cancel and skip
\* keywords is stored as it is, so there the model sends a few
\* representatives: the keywords, a blank, a plain text and a label of the
\* menu; at a choice step also the labels of the keyboard shown and a text
\* that is on no keyboard, and at the text step of a message a short text.
FreeFormTexts(lang) ==
    {get_text(lang, "cancel"), get_text(lang, "skip"), " ", "Home", "WiFi"}

\* the texts the model sends in a state: every text, except at the steps of
\* a multi-step dialogue that have no format rule
InputsAt(ud) ==
    LET lang       == get_user_lang(ud)
        multi_data == Get(ud, "multi_step_data", EmptyDict)
        data_type  == Get(multi_data, "type", None)
        step       == Get(multi_data, "step", 1)
    IN  IF /\ Has(ud, "multi_step_data")
           /\ validation_rule(data_type, step) \in {"required", "optional", "text", "none"}
        THEN FreeFormTexts(lang)
             \cup (IF step = 2 /\ ChoiceKeys(data_type) # {}
                   THEN {get_text(lang, k) : k \in ChoiceKeys(data_type)}
                        \cup {"Dogecoin"}
                   ELSE {})
             \cup (IF validation_rule(data_type, step) = "text" THEN {"hi"} ELSE {})
        ELSE Texts

\* a text message that is not a command (MessageHandler of setup_handlers),
\* the rendering collaborator returning normally if it is called
TextMessage(u) ==
    \E user_text \in InputsAt(user_data[u]) :
        Deliver(u, handle_dynamic_text(user_data[u], user_text, TRUE, "ok"))

\* a text message for which the rendering collaborator is called and raises
TextMessageRenderFails(u) ==
    \E user_text \in InputsAt(user_data[u]) :
        LET r == handle_dynamic_text(user_data[u], user_text, FALSE, "ok")
        IN  r.rendered # <<>> /\ Deliver(u, r)

\* the ways the payload encoder fails
EncoderFaults == {"raises", "empty"}

\* a text message for which the payload encoder is called (the handler
\* renders a payload when the encoder works) and fails
TextMessageEncoderFails(u) ==
    \E user_text \in InputsAt(user_data[u]) :
        /\ handle_dynamic_text(user_data[u], user_text, TRUE, "ok").rendered # <<>>
        /\ \E encoder \in EncoderFaults :
              Deliver(u, handle_dynamic_text(user_data[u], user_text, TRUE, encoder))

\* /start
CmdStart(u) == Deliver(u, start(user_data[u]))

\* /help
CmdHelp(u) == Deliver(u, help_command(user_data[u]))

\* /language
CmdLanguage(u) == Deliver(u, language_command(user_data[u]))

\* /new (QRBot.new_qr)
CmdNew(u) == Deliver(u, create_qr(user_data[u]))

\* /cancel
CmdCancel(u) == Deliver(u, cancel(user_data[u]))

\* the user whose conversation the single-conversation specification follows
Alice == "alice"

Next ==
    \/ TextMessage(Alice)
    \/ TextMessageRenderFails(Alice)
    \/ TextMessageEncoderFails(Alice)
    \/ CmdStart(Alice)
    \/ CmdHelp(Alice)
    \/ CmdLanguage(Alice)
    \/ CmdNew(Alice)
    \/ CmdCancel(Alice)

Spec == Init /\ [][Next]_vars


(***************************************************************************)
(* The update dispatcher.  QRBot.__init__ builds the Application with the  *)
(* builder's defaults and QRBot.run starts it with run_polling: the        *)
(* updates of all users go through one queue, and with the default         *)
(* concurrent_updates the application awaits the handler of an update      *)
(* before it takes the next update from the queue.  A handler reads the    *)
(* user's dict when it starts and has written it when it returns.          *)
(***************************************************************************)

\* the number of updates the Application handles at a time
\* (Application.builder() without concurrent_updates)
max_concurrent_updates == 1

\* the texts of the updates of these behaviours
DispatchTexts == {"URL", "Location", "12.34", "Cancel", available_languages["ru"]}

\* an Application built with concurrent_updates(True): no limit that the
\* updates of a behaviour reach
MayBegin_concurrently(in_progress) == TRUE

\* the update fetcher takes the next update when fewer than
\* max_concurrent_updates are in progress
MayBegin(in_progress) == Cardinality(in_progress) < max_concurrent_updates

\* a message of user u arrives and is put on the queue
Arrive(u) ==
    /\ arrived < MaxUpdates
    /\ \E user_text \in DispatchTexts :
          queue' = Append(queue, [id |-> arrived + 1, user |-> u, text |-> user_text])
    /\ arrived' = arrived + 1
    /\ UNCHANGED <<user_data, replies, rendered, raised, fails, running, call>>

\* the handler of the first update of the queue starts
Begin ==
    /\ queue # <<>>
    /\ MayBegin(running)
    /\ running' = running \cup
                     {[id   |-> Head(queue).id,
                       user |-> Head(queue).user,
                       text |-> Head(queue).text,
                       seen |-> user_data[Head(queue).user]]}
    /\ queue' = Tail(queue)
    /\ UNCHANGED <<user_data, replies, rendered, raised, fails, arrived, call>>

\* what the handler of update upd leaves behind
Outcome(upd) == handle_dynamic_text(upd.seen, upd.text, TRUE, "ok")

\* one dict for all users, to see that C36_OtherUsersUntouched depends on
\* user_data being kept per user
StateAfter_shared(store, upd) == [u \in Users |-> Outcome(upd).ud]

\* context.user_data is the dict of the user of the update: the handler's
\* writes go there
StateAfter(store, upd) == [store EXCEPT ![upd.user] = Outcome(upd).ud]

\* the handler of an update in progress returns
Finish ==
    \E upd \in running :
        /\ user_data' = StateAfter(user_data, upd)
        /\ replies' = Outcome(upd).replies
        /\ rendered' = Outcome(upd).rendered
        /\ raised' = Outcome(upd).raised
        /\ running' = running \ {upd}
        /\ UNCHANGED <<fails, queue, arrived, call>>

NextDispatch ==
    \/ \E u \in Users : Arrive(u)
    \/ Begin
    \/ Finish

SpecDispatch == Init /\ [][NextDispatch]_vars


(***************************************************************************)
(* Calls of the validators (ValidationUtils) and the encoders              *)
(* (DataTemplates) as functions: a call has a function and arguments, and  *)
(* once made an output; dialogue events may be handled before and after it.*)
(***************************************************************************)
\* the validators and the encoders, by name
Functions ==
    {"validate_url", "validate_email", "validate_phone", "validate_date",
     "validate_time", "validate_coordinate", "validate_amount",
     "create_url", "create_youtube", "create_text", "create_email",
     "create_phone", "create_wifi", "create_location", "create_sms",
     "create_whatsapp", "create_vcard", "create_event", "create_paypal",
     "create_crypto", "create_social"}

\* the texts the functions of one argument are called with
CallTexts ==
    {"example.com", "https://example.com", "http://example.com",
     "HTTP://Example.com", "Https://example.com", "hi", "a@b.co",
     "2024-01-05", "2024-1-5", "2024-02-30", "24-01-05", "10:30",
     "+1 (234) 567-890", "5", "-1", " "}

\* the argument lists the functions of several arguments are called with
CallArgs(fn) ==
    CASE fn = "create_wifi" ->
            {<<"Home", password, encryption>> :
                password \in {"", " ", "secret123"},
                encryption \in {"WPA", "WEP", "nopass"}}
      [] fn = "create_location" -> {<<"12.34", "56.78">>}
      [] fn = "create_sms"      -> {<<"555-1234567", "">>, <<"555-1234567", "hi">>}
      [] fn = "create_whatsapp" -> {<<"555-1234567", "">>, <<"555-1234567", "hi">>}
      [] fn = "create_vcard"    -> {<<"Home", "", "", "", "">>,
                                    <<"Home", "hi", "555-1234567", "a@b.co", "example.com">>}
      [] fn = "create_event"    -> {<<"Home", "2024-01-05", "", "">>,
                                    <<"Home", "2024-01-05", "10:30", "hi">>}
      [] fn = "create_paypal"   -> {<<"a@b.co", "">>, <<"a@b.co", "5">>, <<"a@b.co", " ">>}
      [] fn = "create_crypto"   -> {<<"Home", "BTC">>, <<"Home", "Dogecoin">>}
      [] fn = "create_social"   -> {<<"Home", "instagram">>, <<"Home", "tiktok">>}
      [] OTHER -> {<<t>> : t \in CallTexts}

\* fn(*args)
Apply(fn, args) ==
    CASE fn = "validate_url"        -> validate_url(args[1])
      [] fn = "validate_email"      -> validate_email(args[1])
      [] fn = "validate_phone"      -> validate_phone(args[1])
      [] fn = "validate_date"       -> validate_date(args[1])
      [] fn = "validate_time"       -> validate_time(args[1])
      [] fn = "validate_coordinate" -> validate_coordinate(args[1])
      [] fn = "validate_amount"     -> validate_amount(args[1])
      [] fn = "create_url"          -> create_url(args[1])
      [] fn = "create_youtube"      -> create_youtube(args[1])
      [] fn = "create_text"         -> create_text(args[1])
      [] fn = "create_email"        -> create_email(args[1])
      [] fn = "create_phone"        -> create_phone(args[1])
      [] fn = "create_wifi"         -> create_wifi(args[1], args[2], args[3])
      [] fn = "create_location"     -> create_location(args[1], args[2])
      [] fn = "create_sms"          -> create_sms(args[1], args[2])
      [] fn = "create_whatsapp"     -> create_whatsapp(args[1], args[2])
      [] fn = "create_vcard"        -> create_vcard(args[1], args[2], args[3], args[4], args[5])
      [] fn = "create_event"        -> create_event(args[1], args[2], args[3], args[4])
      [] fn = "create_paypal"       -> create_paypal(args[1], args[2])
      [] fn = "create_crypto"       -> create_crypto(args[1], args[2])
      [] fn = "create_social"       -> create_social(args[1], args[2])

\* one of the calls is about to be made
InitCalls ==
    /\ Constructed
    /\ call \in UNION {{[fn |-> fn, args |-> args, out |-> <<>>] : args \in CallArgs(fn)} :
                       fn \in Functions}

\* the function is called with the arguments
MakeCall ==
    /\ call.out = <<>>
    /\ call' = [call EXCEPT !.out = <<Apply(call.fn, call.args)>>]
    /\ UNCHANGED <<user_data, replies, rendered, raised, fails, queue, running, arrived>>

\* a dialogue event is handled, before or after the call
DialogueEvent ==
    \E user_text \in DispatchTexts :
        Deliver(Alice, handle_dynamic_text(user_data[Alice], user_text, TRUE, "ok"))

NextCalls ==
    \/ MakeCall
    \/ DialogueEvent

SpecCalls == InitCalls /\ [][NextCalls]_vars


(***************************************************************************)
(* Vocabulary of the properties.  A session is what the code keeps under   *)
(* the keys current_data_type, wifi_data and multi_step_data; the language *)
(* preference is not part of it.                                           *)
(***************************************************************************)
SessionKeys == {"current_data_type", "wifi_data", "multi_step_data"}

Active(ud) == DOMAIN ud \cap SessionKeys # {}

Idle(ud) == ~Active(ud)

WifiSession(ud) == Has(ud, "wifi_data")

MultiSession(ud) == ~WifiSession(ud) /\ Has(ud, "multi_step_data")

SingleSession(ud) ==
    /\ Has(ud, "current_data_type")
    /\ ~Has(ud, "wifi_data")
    /\ ~Has(ud, "multi_step_data")

\* the conversation the properties speak about
Now == user_data[Alice]

\* the data type of a session
TypeOf(ud) ==
    IF WifiSession(ud) THEN "wifi"
    ELSE IF MultiSession(ud) THEN ud["multi_step_data"]["type"]
    ELSE Get(ud, "current_data_type", None)

\* the number of fields the documentation gives each data type (wifi: with
\* a password)
FieldCount(data_type) ==
    CASE data_type \in SingleTypes -> 1
      [] data_type \in {"location", "sms", "whatsapp", "paypal", "crypto", "social"} -> 2
      [] data_type = "wifi"  -> 3
      [] data_type = "event" -> 4
      [] data_type = "vcard" -> 5

\* the number of the field a session is waiting for
FieldIndex(ud) ==
    IF WifiSession(ud)
    THEN (CASE ud["wifi_data"]["step"] = "ssid"       -> 1
            [] ud["wifi_data"]["step"] = "encryption" -> 2
            [] ud["wifi_data"]["step"] = "password"   -> 3
            [] OTHER -> 0)
    ELSE IF MultiSession(ud) THEN ud["multi_step_data"]["step"]
    ELSE 1

\* the labels of the keyboard of a step, if the step is a choice
ChoiceLabels(ud) ==
    LET lang == get_user_lang(ud)
    IN  IF WifiSession(ud) /\ FieldIndex(ud) = 2
        THEN {get_text(lang, k) :
                k \in {"encryption_wpa", "encryption_wep", "encryption_none"}}
        ELSE IF MultiSession(ud) /\ FieldIndex(ud) = 2
        THEN {get_text(lang, k) : k \in ChoiceKeys(TypeOf(ud))}
        ELSE {}

\* the plain texts of the model: no keyword, no label, not blank
PlainTexts == (FreeTexts \ LabelTexts) \ {" "}

\* the acceptable inputs of the field a session is waiting for: at a choice
\* step the labels offered, else the plain texts its validator accepts
AcceptableAt(ud) ==
    IF ChoiceLabels(ud) # {} THEN ChoiceLabels(ud)
    ELSE IF MultiSession(ud)
    THEN {t \in PlainTexts \cap InputsAt(ud) :
            validate_multi_step_input(t, TypeOf(ud), FieldIndex(ud)) = ""}
    ELSE IF SingleSession(ud)
    THEN {t \in PlainTexts : validate_input(t, TypeOf(ud)) = ""}
    ELSE IF WifiSession(ud) THEN PlainTexts
    ELSE {}

(***************************************************************************)
(* C1.  For each data type, one acceptable input per field completes the   *)
(* operation after exactly as many inputs as the type has fields: the      *)
(* selection of the type opens the session at field 1, an acceptable input *)
(* at a field that is not the last moves the session to the next field     *)
(* without a payload, and an acceptable input at the last field emits a    *)
(* payload and leaves no session (at the wifi encryption field, the        *)
(* 'no password' label completes and the other labels move on to the       *)
(* password).  A wifi session with ssid Home, then WPA, then secret123     *)
(* ends with the payload WIFI:T:WPA;S:Home;P:secret123;;.                   *)
(***************************************************************************)
C1_SelectionOpens ==
    \A i \in 1..Len(DataTypes) :
        LET r == handle_dynamic_text(Now, data_type_label(get_user_lang(Now), i), TRUE, "ok")
        IN  Idle(Now) =>
                /\ Active(r.ud)
                /\ TypeOf(r.ud) = DataTypes[i]
                /\ FieldIndex(r.ud) = 1

C1_FieldByField ==
    \A t \in AcceptableAt(Now) :
        LET r    == handle_dynamic_text(Now, t, TRUE, "ok")
            last == IF WifiSession(Now) /\ FieldIndex(Now) = 2
                    THEN t = get_text(get_user_lang(Now), "encryption_none")
                    ELSE FieldIndex(Now) = FieldCount(TypeOf(Now))
        IN  IF last
            THEN Len(r.rendered) = 1 /\ Idle(r.ud)
            ELSE /\ r.rendered = <<>>
                 /\ Active(r.ud)
                 /\ TypeOf(r.ud) = TypeOf(Now)
                 /\ FieldIndex(r.ud) = FieldIndex(Now) + 1

C1_WifiExample ==
    (/\ WifiSession(Now)
     /\ FieldIndex(Now) = 2
     /\ Get(Now["wifi_data"], "ssid", None) = "Home")
    => LET lang == get_user_lang(Now)
           r1   == handle_dynamic_text(Now, get_text(lang, "encryption_wpa"), TRUE, "ok")
           r2   == handle_dynamic_text(r1.ud, "secret123", TRUE, "ok")
       IN  r2.rendered = <<"WIFI:T:WPA;S:Home;P:secret123;;">> /\ Idle(r2.ud)

\* C1: the selection opens the session at field 1, every acceptable input
\* moves it on by one field or, at the last field, completes it with a
\* payload, and the wifi example ends with its payload.
C1_Completes == C1_SelectionOpens /\ C1_FieldByField /\ C1_WifiExample

(***************************************************************************)
(* C2.  In a wifi session whose ssid is stored, the WPA and WEP labels     *)
(* move the session to the password step, and the 'no password' label      *)
(* completes the operation at once with the payload                        *)
(* WIFI:T:nopass;S:<ssid>;; and without a password prompt.                 *)
(***************************************************************************)
C2_EncryptionChoice ==
    (WifiSession(Now) /\ FieldIndex(Now) = 2 /\ Has(Now["wifi_data"], "ssid"))
    => LET lang == get_user_lang(Now)
           ssid == Now["wifi_data"]["ssid"]
           none == handle_dynamic_text(Now, get_text(lang, "encryption_none"), TRUE, "ok")
       IN  /\ \A k \in {"encryption_wpa", "encryption_wep"} :
                LET r == handle_dynamic_text(Now, get_text(lang, k), TRUE, "ok")
                IN  /\ WifiSession(r.ud)
                    /\ r.ud["wifi_data"]["step"] = "password"
                    /\ r.rendered = <<>>
           /\ none.rendered = <<"WIFI:T:nopass;S:" \o ssid \o ";;">>
           /\ Idle(none.ud)
           /\ \A j \in 1..Len(none.replies) : none.replies[j] # "enter_wifi_password"

(***************************************************************************)
(* Vocabulary of the multi-step properties.                                *)
(***************************************************************************)
MultiData == Now["multi_step_data"]

\* the cancel and skip keywords in the language of a conversation
Keywords(ud) ==
    {get_text(get_user_lang(ud), "cancel"), get_text(get_user_lang(ud), "skip")}

\* the inputs the validator of the current step rejects, and those it accepts
RejectedAt(ud) ==
    {t \in InputsAt(ud) \ Keywords(ud) :
        validate_multi_step_input(t, TypeOf(ud), FieldIndex(ud)) # ""}

ValidAt(ud) ==
    {t \in InputsAt(ud) \ Keywords(ud) :
        validate_multi_step_input(t, TypeOf(ud), FieldIndex(ud)) = ""}

\* a rejected input: one validation error, nothing else changes
RejectionKeepsSession ==
    \A t \in RejectedAt(Now) :
        LET r == handle_dynamic_text(Now, t, TRUE, "ok")
        IN  /\ Len(r.replies) = 1
            /\ r.replies[1] \in ValidationErrors
            /\ r.rendered = <<>>
            /\ r.ud = Now

\* a valid input is stored and the step moves on by one
StoredAndAdvanced(r, t) ==
    /\ MultiSession(r.ud)
    /\ r.ud["multi_step_data"]["type"] = MultiData["type"]
    /\ r.ud["multi_step_data"]["step"] = MultiData["step"] + 1
    /\ r.ud["multi_step_data"]["inputs"] = Put(MultiData["inputs"], MultiData["step"], t)

\* a valid input completes the operation with the payload of the inputs
\* collected and this one
StoredAndCompleted(r, t) ==
    /\ Idle(r.ud)
    /\ r.rendered = <<generate_multi_step_qr_data(
                        MultiData["type"],
                        Put(MultiData["inputs"], MultiData["step"], t), "ok")>>

(***************************************************************************)
(* C3, as stated.  In a multi-step session a rejected input gives a        *)
(* validation error and leaves type, step and fields unchanged, and a      *)
(* valid input for the same step is stored and advances the step by        *)
(* exactly one, after any number of failures in a row.                     *)
(***************************************************************************)
C3_ValidAlwaysAdvances ==
    MultiSession(Now) =>
        /\ RejectionKeepsSession
        /\ \A t \in ValidAt(Now) :
              StoredAndAdvanced(handle_dynamic_text(Now, t, TRUE, "ok"), t)

(***************************************************************************)
(* C3, amended.  In a multi-step session a rejected input gives a          *)
(* validation error and leaves type, step and fields unchanged; a valid    *)
(* input for the same step is stored and advances the step by exactly one  *)
(* when the step is not the type's last, and at the last step it completes *)
(* the operation with the payload built from the stored fields and this    *)
(* input, leaving no session.  This holds after any number of failures in  *)
(* a row.                                                                  *)
(***************************************************************************)
C3_RetrySameStep ==
    MultiSession(Now) =>
        /\ RejectionKeepsSession
        /\ \A t \in ValidAt(Now) :
              LET r == handle_dynamic_text(Now, t, TRUE, "ok")
              IN  IF MultiData["step"] < FieldCount(MultiData["type"])
                  THEN StoredAndAdvanced(r, t)
                  ELSE StoredAndCompleted(r, t)

\* a session at its last step after MaxFails rejections in a row, the last
\* event being a rejection, with a valid input to follow
C3_Witness ==
    /\ MultiSession(Now)
    /\ fails[Alice] = MaxFails
    /\ Len(replies) = 1
    /\ replies[1] \in ValidationErrors
    /\ MultiData["step"] = FieldCount(MultiData["type"])
    /\ MultiData["step"] - 1 \in DOMAIN MultiData["inputs"]
    /\ RejectedAt(Now) # {}
    /\ ValidAt(Now) # {}

(***************************************************************************)
(* C4.  The cancel keyword at any step of any active session (single       *)
(* field, wifi, multi-step) leaves no data type, step or collected field,  *)
(* replies 'operation cancelled' and nothing else, and leaves exactly the  *)
(* state of a fresh idle conversation of the same language, so that every  *)
(* later event is handled as from that state.                              *)
(***************************************************************************)
C4_CancelDestroys ==
    Active(Now) =>
        LET r     == handle_dynamic_text(Now, get_text(get_user_lang(Now), "cancel"), TRUE, "ok")
            fresh == IF Has(Now, "language")
                     THEN Put(EmptyDict, "language", Now["language"])
                     ELSE EmptyDict
        IN  /\ r.replies = <<"operation_cancelled">>
            /\ r.rendered = <<>>
            /\ ~r.raised
            /\ Idle(r.ud)
            /\ r.ud = fresh

\* a multi-step session past its first step, with a language chosen, that
\* the cancel keyword ends
C4_Witness ==
    /\ MultiSession(Now)
    /\ MultiData["step"] >= 2
    /\ Has(Now, "language")
    /\ Idle(handle_dynamic_text(Now, get_text(get_user_lang(Now), "cancel"), TRUE, "ok").ud)

(***************************************************************************)
(* C5.  Whenever an event emits a payload, the state after it holds no     *)
(* session: no data type, no step, no collected fields.  The wifi          *)
(* finaliser, too, leaves no session whenever it emits a payload.          *)
(***************************************************************************)
C5_CompletionClears ==
    /\ rendered # <<>> => Idle(Now)
    /\ WifiSession(Now) =>
          LET r == finalize_wifi_qr(Now, TRUE, "ok")
          IN  r.rendered # <<>> => Idle(r.ud)

\* a payload of five fields has just been emitted
C5_Witness ==
    /\ Len(rendered) = 1
    /\ startswith(rendered[1], "BEGIN:VCARD")
    /\ Idle(Now)

(***************************************************************************)
(* C6.  The skip keyword stores the empty string and advances only at an   *)
(* optional field; at a required field it is not accepted as a skip, so    *)
(* no required field of a session ever holds the empty string.             *)
(***************************************************************************)
RequiredRules == {"required", "phone", "email", "coordinate", "date"}

C6_SkipOnlyOptional ==
    MultiSession(Now) =>
        LET r == handle_dynamic_text(Now, get_text(get_user_lang(Now), "skip"), TRUE, "ok")
        IN  /\ \A i \in DOMAIN MultiData["inputs"] :
                  validation_rule(MultiData["type"], i) \in RequiredRules
                      => MultiData["inputs"][i] # ""
            /\ validation_rule(MultiData["type"], MultiData["step"]) \in RequiredRules
                  => /\ MultiSession(r.ud)
                     /\ r.ud["multi_step_data"] = MultiData
                     /\ r.rendered = <<>>

(***************************************************************************)
(* C7.  At a choice step of an active session a display label is stored    *)
(* as its canonical value, never as the display text: a crypto or social   *)
(* session with its address or user name given completes, on a label of    *)
(* the step, with the payload of the label's canonical value (the Bitcoin  *)
(* label and address A give bitcoin:A).  The wifi encryption step, where   *)
(* the labels are to be stored as WPA, WEP or nopass, is the subject of    *)
(* C2_EncryptionChoice.                                                    *)
(***************************************************************************)
Canonical(key) ==
    CASE key = "crypto_btc"  -> "BTC"
      [] key = "crypto_eth"  -> "ETH"
      [] key = "crypto_usdt" -> "USDT"
      [] key = "social_instagram" -> "instagram"
      [] key = "social_tiktok"    -> "tiktok"
      [] key = "social_facebook"  -> "facebook"
      [] key = "social_linkedin"  -> "linkedin"
      [] key = "social_twitter"   -> "twitter"

\* the choice step of a crypto or social session whose first field holds
\* an address or a user name
AtChoiceStep(ud) ==
    /\ MultiSession(ud)
    /\ ud["multi_step_data"]["type"] \in {"crypto", "social"}
    /\ ud["multi_step_data"]["step"] = 2
    /\ Get(ud["multi_step_data"]["inputs"], 1, "") # ""

\* the payload of the session's address or user name and a canonical value
ChoicePayload(value) ==
    IF MultiData["type"] = "crypto"
    THEN create_crypto(MultiData["inputs"][1], value)
    ELSE create_social(MultiData["inputs"][1], value)

C7_ChoiceCanonical ==
    AtChoiceStep(Now) =>
        \A k \in ChoiceKeys(MultiData["type"]) :
            LET r == handle_dynamic_text(Now, get_text(get_user_lang(Now), k), TRUE, "ok")
            IN  r.rendered = <<ChoicePayload(Canonical(k))>>

(***************************************************************************)
(* C8.  At a choice step of an active session a text that is none of the   *)
(* step's labels, and not cancel, is resolved to the default canonical     *)
(* value (BTC for crypto, instagram for social) and the operation          *)
(* completes with it: an unmatched crypto selection for address A gives    *)
(* bitcoin:A.                                                              *)
(***************************************************************************)
DefaultChoice(data_type) == IF data_type = "crypto" THEN "BTC" ELSE "instagram"

C8_UnmatchedDefault ==
    AtChoiceStep(Now) =>
        \A t \in InputsAt(Now) \
                 (ChoiceLabels(Now) \cup {get_text(get_user_lang(Now), "cancel")}) :
            LET r == handle_dynamic_text(Now, t, TRUE, "ok")
            IN  /\ r.rendered = <<ChoicePayload(DefaultChoice(MultiData["type"]))>>
                /\ Idle(r.ud)

(***************************************************************************)
(* C9.  In every reachable state with an active multi-step session the     *)
(* step is within 1..field count of the data type (2 for location, sms,    *)
(* whatsapp, paypal, crypto, social; 4 for event; 5 for vcard).            *)
(***************************************************************************)
C9_StepInRange ==
    Has(Now, "multi_step_data") =>
        /\ MultiData["type"] \in MultiStepTypes
        /\ MultiData["step"] \in 1..FieldCount(MultiData["type"])

\* a session at the last of five steps, about to take one more valid input
C9_Witness ==
    /\ Has(Now, "multi_step_data")
    /\ MultiData["type"] = "vcard"
    /\ MultiData["step"] = 5
    /\ ValidAt(Now) # {}

(***************************************************************************)
(* C10.  In every reachable state with an active multi-step session the    *)
(* collected fields have entries for exactly the steps already passed,     *)
(* 1..step-1, and none for the current or a later step.                    *)
(***************************************************************************)
C10_FieldsArePassedSteps ==
    Has(Now, "multi_step_data") =>
        DOMAIN MultiData["inputs"] = 1..(MultiData["step"] - 1)

\* a session that has passed three steps, one of them by the skip keyword
C10_Witness ==
    /\ Has(Now, "multi_step_data")
    /\ MultiData["step"] = 4
    /\ \E i \in DOMAIN MultiData["inputs"] : MultiData["inputs"][i] = ""


(***************************************************************************)
(* C11.  A value stored for a step of a session is never changed by a      *)
(* later event: while the session lasts, every event leaves the data type  *)
(* and every stored field as they were (multi-step inputs; the ssid,       *)
(* encryption and password of a wifi session), and a stored field          *)
(* disappears only together with the whole session (cancel, reset,         *)
(* completion), after which no data type, step or field remains.           *)
(***************************************************************************)
WifiFields == {"ssid", "encryption", "password"}

\* the stored fields of a dict of fields are kept by a later one
FieldsKept(before, after) ==
    \A i \in DOMAIN before : i \in DOMAIN after /\ after[i] = before[i]

\* the fields a wifi session has stored
WifiStored(ud) ==
    [k \in DOMAIN ud["wifi_data"] \cap WifiFields |-> ud["wifi_data"][k]]

C11_EventKeepsFields ==
    /\ Has(Now, "multi_step_data") =>
          IF Has(Now', "multi_step_data")
          THEN /\ Now'["multi_step_data"]["type"] = MultiData["type"]
               /\ FieldsKept(MultiData["inputs"], Now'["multi_step_data"]["inputs"])
          ELSE Idle(Now')
    /\ Has(Now, "wifi_data") =>
          IF Has(Now', "wifi_data")
          THEN FieldsKept(WifiStored(Now), WifiStored(Now'))
          ELSE Idle(Now')

C11_StoredFieldsFrozen == [][C11_EventKeepsFields]_vars

\* a session with two fields stored whose last event was a rejected input:
\* an event after the store that had the stored fields to leave alone
C11_Witness ==
    /\ Has(Now, "multi_step_data")
    /\ MultiData["step"] = 3
    /\ MultiData["inputs"][1] # MultiData["inputs"][2]
    /\ fails[Alice] > 0
    /\ Len(replies) = 1
    /\ replies[1] \in ValidationErrors

(***************************************************************************)
(* Vocabulary of the location properties.                                  *)
(***************************************************************************)
AtLocationStep1 ==
    /\ MultiSession(Now)
    /\ MultiData["type"] = "location"
    /\ MultiData["step"] = 1

\* the latitude lat passes step 1 and, with longitude lon, the operation
\* completes with the payload geo:lat,lon
LocationCompletes(lat, lon) ==
    LET r1 == handle_dynamic_text(Now, lat, TRUE, "ok")
        r2 == handle_dynamic_text(r1.ud, lon, TRUE, "ok")
    IN  /\ MultiSession(r1.ud)
        /\ r1.ud["multi_step_data"]["step"] = 2
        /\ r1.rendered = <<>>
        /\ r2.rendered = <<"geo:" \o lat \o "," \o lon>>
        /\ Idle(r2.ud)

(***************************************************************************)
(* C12, as stated.  In a location session the latitude "200" passes        *)
(* validation at step 1 and, with longitude "56.78", the operation         *)
(* completes with the payload geo:200,56.78; latitude "12.34" and          *)
(* longitude "56.78" give geo:12.34,56.78.                                 *)
(***************************************************************************)
C12_Lat200Accepted ==
    AtLocationStep1 =>
        /\ LocationCompletes("200", "56.78")
        /\ LocationCompletes("12.34", "56.78")

(***************************************************************************)
(* C12, amended.  In a location session the latitude "200" is outside      *)
(* [-180, 180] and is rejected at step 1 with the invalid-coordinate       *)
(* error, the session staying at step 1 with nothing stored; the latitude  *)
(* "100", beyond a geographic latitude but within [-180, 180], passes and  *)
(* with longitude "56.78" gives the payload geo:100,56.78; latitude        *)
(* "12.34" and longitude "56.78" give geo:12.34,56.78.                     *)
(***************************************************************************)
C12_Lat200Rejected ==
    AtLocationStep1 =>
        /\ LET r == handle_dynamic_text(Now, "200", TRUE, "ok")
           IN  /\ r.replies = <<"invalid_coordinate">>
               /\ r.rendered = <<>>
               /\ r.ud = Now
        /\ LocationCompletes("100", "56.78")
        /\ LocationCompletes("12.34", "56.78")

\* a location session still at step 1 after a latitude was rejected
C12_Witness ==
    /\ AtLocationStep1
    /\ replies = <<"invalid_coordinate">>
    /\ fails[Alice] > 0
    /\ MultiData["inputs"] = EmptyDict

(***************************************************************************)
(* Vocabulary of the phone properties.                                     *)
(***************************************************************************)

\* phone numbers and near misses, at and around the length of ten
PhoneSamples ==
    {"", "+", "123456789", "1234567890", "+123456789", "+1234567890",
     "+1 (234) 567-890", "555-1234567", "(555) 123 45 67", "12345+67890",
     "++1234567890", "1234567890+", "          ", "123456789a",
     "555.123.4567", "2024-01-05", "12345\t67890", "1234567890\n",
     "+12345\n6789", "+(((((((((", "+---------"}

\* a single-field session of the phone type
PhoneSession == SingleSession(Now) /\ TypeOf(Now) = "phone"

\* t without its leading '+', if it has one
AfterPlus(t) == IF startswith(t, "+") THEN Drop(t, 1) ELSE t

\* the phone session rejects t as a phone number
PhoneRejected(t) ==
    LET r == handle_dynamic_text(Now, t, TRUE, "ok")
    IN  r.replies = <<"invalid_phone">> /\ r.rendered = <<>> /\ r.ud = Now

\* the phone session takes t as a phone number and completes
PhoneTaken(t) ==
    LET r == handle_dynamic_text(Now, t, TRUE, "ok")
    IN  Len(r.rendered) = 1 /\ startswith(r.rendered[1], "tel:") /\ Idle(r.ud)

\* the validator and the phone session agree with the predicate Accepts
PhoneAcceptsExactly(Accepts(_)) ==
    /\ \A t \in PhoneSamples : validate_phone(t) <=> Accepts(t)
    /\ PhoneSession =>
          \A t \in PlainTexts \cup {" "} :
              IF Accepts(t) THEN PhoneTaken(t) ELSE PhoneRejected(t)

(***************************************************************************)
(* C13, as stated.  The phone validator accepts exactly the texts made of  *)
(* an optional leading '+' followed only by digits, spaces, hyphens and    *)
(* parentheses whose total length, the '+' counted, is at least 10; every  *)
(* other text is rejected.                                                 *)
(***************************************************************************)
PhoneAsStated(t) ==
    /\ AllIn(AfterPlus(t), Digits \cup {" ", "-", "(", ")"})
    /\ Len(t) >= 10

C13_PhoneTenWithPlus == PhoneAcceptsExactly(PhoneAsStated)

(***************************************************************************)
(* C13, amended.  The phone validator accepts exactly the texts made of an *)
(* optional leading '+' followed by at least 10 characters, each a digit,  *)
(* a whitespace character (space, tab, newline, ...), a hyphen or a        *)
(* parenthesis: the '+' does not count towards the 10.  Every other text   *)
(* is rejected.                                                            *)
(***************************************************************************)
PhoneAsAmended(t) ==
    /\ Len(t) - (IF startswith(t, "+") THEN 1 ELSE 0) >= 10
    /\ \A i \in 1..Len(t) :
          \/ Ch(t, i) \in Digits \cup Space \cup {"-", "(", ")"}
          \/ i = 1 /\ Ch(t, i) = "+"

C13_PhoneTenAfterPlus == PhoneAcceptsExactly(PhoneAsAmended)

\* a phone session that has just rejected a text and goes on to reject a
\* '+' followed by nine digits
C13_Witness ==
    /\ PhoneSession
    /\ replies = <<"invalid_phone">>
    /\ PhoneRejected("+123456789")

\* t with every character removed except the digits and a leading '+'
PhoneCleaned(t) ==
    (IF startswith(t, "+") THEN "+" ELSE "") \o Keep(AfterPlus(t), Digits)

\* a '+' occurs in payload p at most once, and then right after 'tel:'
PlusOnlyFirst(p) == \A i \in 1..Len(p) : Ch(p, i) = "+" => i = 5

(***************************************************************************)
(* C14.  For every text the phone validator accepts, the phone payload is  *)
(* 'tel:' followed by the input with every character removed except the   *)
(* digits and a leading '+', so that a '+' occurs in the payload at most   *)
(* once and only right after 'tel:'; "+1 (234) 567-890" gives              *)
(* tel:+1234567890.  This holds of the encoder, of the payload a phone     *)
(* session emits for an accepted text, and of every phone payload emitted. *)
(***************************************************************************)
C14_PhonePayload ==
    /\ \A t \in PhoneSamples :
          validate_phone(t) =>
              /\ create_phone(t) = "tel:" \o PhoneCleaned(t)
              /\ PlusOnlyFirst(create_phone(t))
    /\ create_phone("+1 (234) 567-890") = "tel:+1234567890"
    /\ PhoneSession =>
          \A t \in PlainTexts :
              Verdict[t].phone =>
                  handle_dynamic_text(Now, t, TRUE, "ok").rendered
                      = <<"tel:" \o PhoneCleaned(t)>>
    /\ (rendered # <<>> /\ startswith(rendered[1], "tel:")) =>
          PlusOnlyFirst(rendered[1])

\* the payload of the example has just been emitted
C14_Witness ==
    /\ rendered = <<"tel:+1234567890">>
    /\ Idle(Now)

(***************************************************************************)
(* C15.  An sms session with a valid phone stored, at its text step:      *)
(* the skip keyword completes it with the payload sms:<cleaned phone>, and *)
(* a non-empty text completes it with smsto:<cleaned phone>:<text>; the    *)
(* phone "555-1234567" gives sms:5551234567 when the text is skipped and   *)
(* smsto:5551234567:hi with the text "hi".                                 *)
(***************************************************************************)
AtSmsText ==
    /\ MultiSession(Now)
    /\ MultiData["type"] = "sms"
    /\ MultiData["step"] = 2
    /\ 1 \in DOMAIN MultiData["inputs"]
    /\ MultiData["inputs"][1] \in Texts
    /\ Verdict[MultiData["inputs"][1]].phone

C15_SmsPayload ==
    AtSmsText =>
        LET phone   == MultiData["inputs"][1]
            skipped == handle_dynamic_text(Now, get_text(get_user_lang(Now), "skip"), TRUE, "ok")
        IN  /\ skipped.rendered = <<"sms:" \o PhoneCleaned(phone)>>
            /\ Idle(skipped.ud)
            /\ \A t \in (InputsAt(Now) \cup {"hi"}) \ Keywords(Now) :
                  LET r == handle_dynamic_text(Now, t, TRUE, "ok")
                  IN  /\ r.rendered = <<"smsto:" \o PhoneCleaned(phone) \o ":" \o t>>
                      /\ Idle(r.ud)
            /\ phone = "555-1234567" =>
                  /\ skipped.rendered = <<"sms:5551234567">>
                  /\ handle_dynamic_text(Now, "hi", TRUE, "ok").rendered
                        = <<"smsto:5551234567:hi">>

\* the payload of the example with the text "hi" has just been emitted
C15_Witness ==
    /\ rendered = <<"smsto:5551234567:hi">>
    /\ Idle(Now)

(***************************************************************************)
(* Vocabulary of the failure properties.                                   *)
(***************************************************************************)

\* the replies that report a failed generation
GenerationErrors == {E_DATA_GENERATION, E_WIFI_GENERATION}

\* the encoder of a data type fails towards the engine: it returns no
\* payload, or it raises and does not catch the exception itself
EncoderFails(data_type, encoder) ==
    \/ encoder = "empty"
    \/ encoder = "raises" /\ data_type \notin SelfCatching

\* what an encoder failure is to leave behind: a generation error, no
\* payload rendered, no session
FailureEndsSession(r) ==
    /\ \E i \in 1..Len(r.replies) : r.replies[i] \in GenerationErrors
    /\ r.rendered = <<>>
    /\ ~r.raised
    /\ Idle(r.ud)

\* every event of the current state that calls the encoder (it renders a
\* payload when the encoder works) ends the session with an error when the
\* encoder fails
FailureAtLastField ==
    \A t \in InputsAt(Now) :
        \A encoder \in EncoderFaults :
            (/\ handle_dynamic_text(Now, t, TRUE, "ok").rendered # <<>>
             /\ EncoderFails(TypeOf(Now), encoder))
            => FailureEndsSession(handle_dynamic_text(Now, t, TRUE, encoder))

(***************************************************************************)
(* C16.  If the payload encoder fails (internal exception or no payload)   *)
(* at the final step of an operation of any data type, a generation-failed *)
(* error is reported, no payload is rendered, and no data type, step or    *)
(* field remains: the user is idle and nothing is retried.  For wifi the   *)
(* final step is the finaliser run on a session whose ssid is stored.      *)
(***************************************************************************)
C16_EncoderFailureEndsSession ==
    /\ Active(Now) => FailureAtLastField
    /\ (WifiSession(Now) /\ Has(Now["wifi_data"], "ssid")) =>
          \A encoder \in EncoderFaults :
              FailureEndsSession(finalize_wifi_qr(Now, TRUE, encoder))

\* the part of C16 that the generic multi-step dialogue keeps
C16_MultiStepPart == MultiSession(Now) => FailureAtLastField

\* the replies that report a payload that is missing or blank
BlankPayloadErrors == {E_EMPTY_DATA, E_DATA_GENERATION, E_WIFI_GENERATION}

\* no payload handed to the renderer is empty or whitespace only
RendererNeverGetsBlank == \A i \in 1..Len(rendered) : strip_nonempty(rendered[i])

(***************************************************************************)
(* C17.  The renderer is never called with an empty or whitespace-only     *)
(* payload: no payload that was rendered is blank, and the event that      *)
(* detects such a payload reports an error, renders nothing and leaves no  *)
(* session.                                                                *)
(***************************************************************************)
C17_BlankPayloadIsFailure ==
    /\ RendererNeverGetsBlank
    /\ (\E i \in 1..Len(replies) : replies[i] \in BlankPayloadErrors)
          => rendered = <<>> /\ Idle(Now)

\* the session part of a user's dict
SessionOf(ud) == [k \in DOMAIN ud \cap SessionKeys |-> ud[k]]

\* the states an event may lead to from ud: the session as it was, no
\* session, the same session one field further, or a session opened at its
\* first field
WellDefinedAfter(ud, after) ==
    \/ SessionOf(after) = SessionOf(ud)
    \/ Idle(after)
    \/ /\ Active(ud)
       /\ Active(after)
       /\ TypeOf(after) = TypeOf(ud)
       /\ FieldIndex(after) = FieldIndex(ud) + 1
    \/ /\ Idle(ud)
       /\ Active(after)
       /\ FieldIndex(after) = 1

(***************************************************************************)
(* C18.  Every text event, in every reachable state, ends without an       *)
(* unhandled error, with at least one reply to the user, and in a          *)
(* well-defined state: the session unchanged, advanced by one step (or     *)
(* opened at its first step), or idle.  This holds whether the renderer    *)
(* returns or raises.                                                      *)
(***************************************************************************)
C18_EveryTextAnswered ==
    \A t \in InputsAt(Now) :
        \A render_ok \in BOOLEAN :
            LET r == handle_dynamic_text(Now, t, render_ok, "ok")
            IN  /\ ~r.raised
                /\ r.replies # <<>>
                /\ WellDefinedAfter(Now, r.ud)

\* the part of C18 that holds: no text is lost or raises in a multi-step
\* session
C18_AnsweredInMultiStep ==
    MultiSession(Now) =>
        \A t \in InputsAt(Now) :
            LET r == handle_dynamic_text(Now, t, TRUE, "ok")
            IN  ~r.raised /\ r.replies # <<>>

\* the entries of the menus a user without a session is offered: the main
\* menu, the navigation keywords and the languages
MenuEntries(lang) ==
    {get_text(lang, k) : k \in {"create_qr", "help", "language", "back", "cancel"}}
    \cup {available_languages[l] : l \in DOMAIN available_languages}

\* the labels of the data types
DataTypeLabels(lang) == {data_type_label(lang, i) : i \in 1..Len(DataTypes)}

\* the text t gets the static hint and changes nothing
HintOnly(t) ==
    LET r == handle_dynamic_text(Now, t, TRUE, "ok")
    IN  /\ r.replies = <<"use_buttons">>
        /\ r.rendered = <<>>
        /\ ~r.raised
        /\ r.ud = Now

(***************************************************************************)
(* C19.  When no session is active, a text that is no menu entry and no    *)
(* data-type label gets the static 'use the menu' hint and changes no      *)
(* state.                                                                  *)
(***************************************************************************)
C19_UnknownTextGetsHint ==
    Idle(Now) =>
        \A t \in Texts \ (MenuEntries(get_user_lang(Now))
                          \cup DataTypeLabels(get_user_lang(Now))) :
            HintOnly(t)

\* the part of C19 that holds: a text that is on no keyboard at all gets
\* the hint
C19_PlainTextGetsHint ==
    Idle(Now) => \A t \in PlainTexts \cup {" "} : HintOnly(t)

\* the keys of the catalog, and one that no locale has
CatalogKeys ==
    UNION {DOMAIN translations[l] : l \in DOMAIN translations} \cup {"no_such_key"}

\* the lookup as documented: the locale's string, else the default
\* locale's, else the placeholder
LookupWithFallback(locale, key) ==
    IF locale \in DOMAIN translations /\ key \in DOMAIN translations[locale]
    THEN translations[locale][key]
    ELSE IF /\ DEFAULT_LANGUAGE \in DOMAIN translations
            /\ key \in DOMAIN translations[DEFAULT_LANGUAGE]
    THEN translations[DEFAULT_LANGUAGE][key]
    ELSE "[" \o key \o "]"

(***************************************************************************)
(* C20.  get_text(locale, key) is the locale's string for the key when it  *)
(* has one, else the default locale's string for the key when that has     *)
(* one, and the placeholder [key] only when both lack the key: for the     *)
(* language of the conversation and for a locale that is not loaded.       *)
(***************************************************************************)
C20_LookupFallsBack ==
    \A locale \in {get_user_lang(Now), "de"} :
        \A key \in CatalogKeys :
            get_text(locale, key) = LookupWithFallback(locale, key)

\* the part of C20 that holds: the locale's own string, the default locale
\* for a locale that is not loaded, the placeholder for a key nobody has
C20_LookupOwnOrUnknown ==
    \A locale \in DOMAIN translations \cup {"de"} :
        \A key \in CatalogKeys :
            \/ locale \in DOMAIN translations /\ key \notin DOMAIN translations[locale]
                  /\ get_text(locale, key) = "[" \o key \o "]"
            \/ get_text(locale, key) = LookupWithFallback(locale, key)

(***************************************************************************)
(* Vocabulary of the dispatcher properties.                                *)
(***************************************************************************)

\* an update of user u is in progress
InProgress(u) == \E upd \in running : upd.user = u

(***************************************************************************)
(* C21.  Two events of the same user are never handled at the same time:   *)
(* no two updates of one user are in progress together, the session an     *)
(* update in progress has read is still the session of its user (no other  *)
(* event has written it meanwhile), and an update that waits while an      *)
(* earlier update of its user is in progress arrived after that one.       *)
(***************************************************************************)
C21_SameUserOneAtATime ==
    /\ \A a, b \in running : a.user = b.user => a = b
    /\ \A upd \in running : upd.seen = user_data[upd.user]
    /\ \A upd \in running :
          \A i \in 1..Len(queue) : queue[i].user = upd.user => queue[i].id > upd.id

\* a second message of a user waits on the queue while the handler of the
\* first is in progress
C21_Witness ==
    /\ \E upd \in running : upd.user = Alice
    /\ \E i \in 1..Len(queue) : queue[i].user = Alice

(***************************************************************************)
(* C22.  Handling an event of one user does not block the handling of an   *)
(* event of another user: whenever an update of one user is in progress    *)
(* and the first update that waits is of another user who has none in      *)
(* progress, the handler of that update may start.                         *)
(***************************************************************************)
C22_OtherUserNotBlocked ==
    (/\ queue # <<>>
     /\ running # {}
     /\ ~InProgress(Head(queue).user))
    => MayBegin(running)

\* the part of C22 that an Application handling updates concurrently would
\* add is absent: at most one update is in progress at any time
C22_OneUpdateAtATime == Cardinality(running) <= 1

(***************************************************************************)
(* C23.  The wifi encoder returns WIFI:T:nopass;S:<ssid>;; whenever the    *)
(* encryption is the one of the choice 'none' (canonical value nopass) or  *)
(* the password is empty, whatever password comes with the encryption      *)
(* 'none', and WIFI:T:<encryption>;S:<ssid>;P:<password>;; in every other  *)
(* case.                                                                   *)
(***************************************************************************)
WifiCall == call.fn = "create_wifi" /\ call.out # <<>>

\* the canonical value of the choice 'none' of the encryption keyboard
EncryptionNone == encryption_of("en", get_text("en", "encryption_none"))

C23_WifiPayload ==
    WifiCall =>
        LET ssid       == call.args[1]
            password   == call.args[2]
            encryption == call.args[3]
        IN  IF encryption = EncryptionNone \/ password = ""
            THEN call.out = <<"WIFI:T:nopass;S:" \o ssid \o ";;">>
            ELSE call.out = <<"WIFI:T:" \o encryption \o ";S:" \o ssid
                               \o ";P:" \o password \o ";;">>

\* the encoder was called with the encryption 'none' and a password
C23_Witness ==
    /\ WifiCall
    /\ call.args = <<"Home", "secret123", "nopass">>
    /\ call.out = <<"WIFI:T:nopass;S:Home;;">>

(***************************************************************************)
(* C24.  For every text the url validator accepts (it accepts the scheme   *)
(* http or https in any case), the url and youtube payload is the text     *)
(* unchanged when the text carries a scheme and 'https://' followed by the *)
(* text when it carries none; a payload never contains two schemes.        *)
(***************************************************************************)
UrlCall == call.fn \in {"create_url", "create_youtube"} /\ call.out # <<>>

\* t begins with the scheme http or https, in any case
HasScheme(t) == startswith(lower(t), "http://") \/ startswith(lower(t), "https://")

\* the number of schemes in t
SchemeCount(t) == Cardinality({i \in 1..Len(t) : startswith(Drop(t, i - 1), "://")})

UrlPayloadAsStated(t, payload) ==
    /\ payload = (IF HasScheme(t) THEN t ELSE "https://" \o t)
    /\ SchemeCount(payload) = 1

C24_UrlPayload ==
    (UrlCall /\ validate_url(call.args[1])) =>
        UrlPayloadAsStated(call.args[1], call.out[1])

\* the part of C24 that holds: the texts whose scheme, if any, is in lower
\* case
C24_LowerCaseScheme ==
    (/\ UrlCall
     /\ validate_url(call.args[1])
     /\ HasScheme(call.args[1]) =>
            (startswith(call.args[1], "http://") \/ startswith(call.args[1], "https://")))
    => UrlPayloadAsStated(call.args[1], call.out[1])

(***************************************************************************)
(* C25.  In a paypal session the amount is optional: skipping it completes *)
(* with https://paypal.me/<email>; an amount that is not blank is accepted *)
(* only if it parses as a number that is not negative, else the            *)
(* invalid-number error is sent and the session stays at step 2 with the   *)
(* email kept; an accepted amount completes with                           *)
(* https://paypal.me/<email>/<amount>.                                     *)
(***************************************************************************)
AtPaypalAmount ==
    /\ MultiSession(Now)
    /\ MultiData["type"] = "paypal"
    /\ MultiData["step"] = 2
    /\ 1 \in DOMAIN MultiData["inputs"]
    /\ MultiData["inputs"][1] \in Texts
    /\ Verdict[MultiData["inputs"][1]].email

\* the amount t completes the session with the payload of email and t
AmountTaken(email, t) ==
    LET r == handle_dynamic_text(Now, t, TRUE, "ok")
    IN  r.rendered = <<"https://paypal.me/" \o email \o "/" \o t>> /\ Idle(r.ud)

\* the amount t is refused and the session is left as it was
AmountRefused(t) ==
    LET r == handle_dynamic_text(Now, t, TRUE, "ok")
    IN  r.replies = <<"invalid_number">> /\ r.rendered = <<>> /\ r.ud = Now

C25_PaypalAmount ==
    AtPaypalAmount =>
        LET email   == MultiData["inputs"][1]
            skipped == handle_dynamic_text(Now, get_text(get_user_lang(Now), "skip"), TRUE, "ok")
        IN  /\ skipped.rendered = <<"https://paypal.me/" \o email>>
            /\ Idle(skipped.ud)
            /\ AmountTaken(email, "5") /\ AmountTaken(email, "12.34")
            /\ AmountRefused("-1") /\ AmountRefused("hi")
            /\ \A t \in Texts \ Keywords(Now) :
                  strip(t) # "" =>
                      IF Verdict[t].amount THEN AmountTaken(email, t) ELSE AmountRefused(t)

\* an accepted amount has completed a paypal session
C25_Witness == rendered = <<"https://paypal.me/a@b.co/5">> /\ Idle(Now)

(***************************************************************************)
(* C26.  The date validator accepts a text only if it has the strict form  *)
(* YYYY-MM-DD (a year of four digits, month and day of two digits, padded  *)
(* with zeros) and denotes a date of the calendar; every other text, a     *)
(* form that is not padded such as 2024-1-5 included, is rejected at the   *)
(* date step of an event.                                                  *)
(***************************************************************************)
StrictDate(t) ==
    /\ Len(t) = 10
    /\ AllIn(SubSeq(t, 1, 4), Digits) /\ Ch(t, 5) = "-"
    /\ AllIn(SubSeq(t, 6, 7), Digits) /\ Ch(t, 8) = "-"
    /\ AllIn(SubSeq(t, 9, 10), Digits)
    /\ IntVal(SubSeq(t, 1, 4)) >= 1
    /\ IntVal(SubSeq(t, 6, 7)) \in 1..12
    /\ IntVal(SubSeq(t, 9, 10)) \in 1..DaysIn(IntVal(SubSeq(t, 1, 4)), IntVal(SubSeq(t, 6, 7)))

AtEventDate ==
    /\ MultiSession(Now)
    /\ MultiData["type"] = "event"
    /\ MultiData["step"] = 2

\* the date step refuses t and leaves the session as it was
DateRefused(t) ==
    LET r == handle_dynamic_text(Now, t, TRUE, "ok")
    IN  r.replies = <<"invalid_date">> /\ r.rendered = <<>> /\ r.ud = Now

C26_DateStrict ==
    AtEventDate =>
        \A t \in Texts \ Keywords(Now) :
            /\ Verdict[t].date => StrictDate(t)
            /\ ~StrictDate(t) => DateRefused(t)

\* the part of C26 that holds: a strict date is accepted, and a text that is
\* refused is not a strict date; 2024-02-30 is no date of the calendar
C26_StrictDatesAccepted ==
    /\ validate_date("2024-01-05") /\ ~validate_date("2024-02-30")
    /\ AtEventDate =>
          \A t \in Texts \ Keywords(Now) :
              /\ StrictDate(t) => Verdict[t].date
              /\ Verdict[t].date <=> ~DateRefused(t)

(***************************************************************************)
(* C27.  Validators and encoders are deterministic and stateless: a call   *)
(* with the arguments of an earlier call gives the output of the earlier   *)
(* call, whatever dialogue events were handled in between.                 *)
(***************************************************************************)
CallMade == call.out # <<>>

SelectingDataType == Idle(Now) /\ replies = <<"select_data_type">>

C28_EventCreatesAfterCreate == (Idle(Now) /\ Active(Now')) => SelectingDataType

C28_SessionOnlyAfterCreate == [][C28_EventCreatesAfterCreate]_vars

\* the part of C28 that holds: while idle only a data-type label creates a
\* session
C28_OnlyLabelsCreate ==
    Idle(Now) =>
        \A t \in Texts :
            Active(handle_dynamic_text(Now, t, TRUE, "ok").ud)
                => t \in DataTypeLabels(get_user_lang(Now))

(***************************************************************************)
(* C29.  While a session is active its data type never changes: every      *)
(* event that finds a session and leaves a session leaves the data type as *)
(* it was, in single-field sessions as well as in multi-step ones.         *)
(***************************************************************************)
C29_EventKeepsType == (Active(Now) /\ Active(Now')) => TypeOf(Now') = TypeOf(Now)

C29_TypeNeverChanges == [][C29_EventKeepsType]_vars

\* the part of C29 that holds: the sessions of several fields
C29_EventKeepsTypeOfSteps ==
    ((WifiSession(Now) \/ MultiSession(Now)) /\ Active(Now')) => TypeOf(Now') = TypeOf(Now)

C29_TypeOfStepsNeverChanges == [][C29_EventKeepsTypeOfSteps]_vars

(***************************************************************************)
(* C30.  While a session is collecting a field, every text other than the  *)
(* cancel keyword (and the skip keyword at an optional field) goes through *)
(* the validator of the field and ends either in a validation error with   *)
(* the state unchanged or in the value being stored; in single-field       *)
(* sessions too, whatever the text is (the labels of the menu, of help, of *)
(* the language and of the data types included).                           *)
(***************************************************************************)
\* the keywords a session does not treat as a value of its current field
Exempt(ud) ==
    {get_text(get_user_lang(ud), "cancel")}
    \cup (IF MultiSession(ud)
             /\ validation_rule(TypeOf(ud), FieldIndex(ud)) \notin RequiredRules
          THEN {get_text(get_user_lang(ud), "skip")} ELSE {})

\* the event r refused the text and left ud as it was
Refused(ud, r) ==
    /\ \E i \in 1..Len(r.replies) : r.replies[i] \in ValidationErrors
    /\ r.rendered = <<>>
    /\ r.ud = ud

\* the event r took t as the value of the field ud was waiting for: it is
\* in the session's fields, or it completed the session
Stored(ud, t, r) ==
    /\ ~r.raised
    /\ \/ Idle(r.ud) /\ r.rendered # <<>>
       \/ /\ MultiSession(ud) /\ MultiSession(r.ud)
          /\ FieldIndex(ud) \in DOMAIN r.ud["multi_step_data"]["inputs"]
          /\ r.ud["multi_step_data"]["inputs"][FieldIndex(ud)] = t
       \/ /\ WifiSession(ud) /\ WifiSession(r.ud)
          /\ \E k \in DOMAIN WifiStored(r.ud) \ DOMAIN WifiStored(ud) :
                r.ud["wifi_data"][k] \in {t, encryption_of(get_user_lang(ud), t)}

ValidatedOrStored(ud, t) ==
    \/ Refused(ud, handle_dynamic_text(ud, t, TRUE, "ok"))
    \/ Stored(ud, t, handle_dynamic_text(ud, t, TRUE, "ok"))

C30_TextValidatedOrStored ==
    Active(Now) =>
        \A t \in InputsAt(Now) \ Exempt(Now) : ValidatedOrStored(Now, t)

\* the part of C30 that holds: in a single-field session the texts that are
\* on no keyboard and not blank, and in a multi-step session every text but
\* the keywords
C30_PlainTextValidatedOrStored ==
    /\ SingleSession(Now) =>
          \A t \in PlainTexts : ValidatedOrStored(Now, t)
    /\ MultiSession(Now) =>
          \A t \in InputsAt(Now) \ Keywords(Now) : ValidatedOrStored(Now, t)

(***************************************************************************)
(* C31.  In every reachable state at most one of the two session shapes    *)
(* exists (the wifi state and the multi-step state are never present       *)
(* together), and whenever one of them exists the current data type is set *)
(* and agrees with it: wifi for the wifi state, the multi-step state's own *)
(* type otherwise.                                                         *)
(***************************************************************************)
ShapesAgree(ud) ==
    /\ ~(Has(ud, "wifi_data") /\ Has(ud, "multi_step_data"))
    /\ Has(ud, "wifi_data") =>
          Has(ud, "current_data_type") /\ ud["current_data_type"] = "wifi"
    /\ Has(ud, "multi_step_data") =>
          /\ Has(ud, "current_data_type")
          /\ ud["current_data_type"] = ud["multi_step_data"]["type"]

C31_OneSessionShape == \A u \in Users : ShapesAgree(user_data[u])

\* a multi-step session was opened from a single-field session of another
\* type and has taken a field
C31_Witness ==
    /\ MultiSession(Now)
    /\ MultiData["type"] = "location"
    /\ MultiData["step"] = 2
    /\ replies = <<"enter_location_lon">>

(***************************************************************************)
(* C32.  Cancelling an operation, by the cancel keyword or by the /cancel  *)
(* command, from any state never changes the language the user selected:   *)
(* the language after the cancel is the language before it.                *)
(***************************************************************************)
\* the cancel keyword leaves the language as it was
KeywordKeepsLanguage ==
    get_user_lang(handle_dynamic_text(Now, get_text(get_user_lang(Now), "cancel"),
                                      TRUE, "ok").ud)
        = get_user_lang(Now)

\* the /cancel command leaves the language as it was
CommandKeepsLanguage == get_user_lang(cancel(Now).ud) = get_user_lang(Now)

C32_CancelKeepsLanguage == KeywordKeepsLanguage /\ CommandKeepsLanguage

\* the part of C32 that holds: the cancel keyword, which also leaves the
\* stored preference itself as it was
C32_KeywordKeepsLanguage ==
    /\ KeywordKeepsLanguage
    /\ Has(Now, "language") =>
          LET r == handle_dynamic_text(Now, get_text(get_user_lang(Now), "cancel"), TRUE, "ok")
          IN  Has(r.ud, "language") /\ r.ud["language"] = Now["language"]

(***************************************************************************)
(* C33.  Whenever the main menu is shown in response to the 'back'         *)
(* keyword, no session is active afterwards: a following text that matches *)
(* no menu entry gets the static hint and is not taken as the input of a   *)
(* field of an earlier operation.                                          *)
(***************************************************************************)
\* the event of the 'back' keyword in the current state
AfterBack == handle_dynamic_text(Now, get_text(get_user_lang(Now), "back"), TRUE, "ok")

\* in the state ud the text t gets the static hint and changes nothing
HintIn(ud, t) ==
    LET r == handle_dynamic_text(ud, t, TRUE, "ok")
    IN  r.replies = <<"use_buttons">> /\ r.rendered = <<>> /\ ~r.raised /\ r.ud = ud

BackLeavesNoSession ==
    AfterBack.replies = <<"main_menu">> =>
        /\ Idle(AfterBack.ud)
        /\ \A t \in PlainTexts : HintIn(AfterBack.ud, t)

C33_BackEndsSession == BackLeavesNoSession

\* the part of C33 that holds: outside a single-field session
C33_BackWhileIdle == ~SingleSession(Now) => BackLeavesNoSession

(***************************************************************************)
(* C34.  The 'QR ready' confirmation is emitted only by an event in which  *)
(* a payload was rendered and sent: an event that reports a generation     *)
(* error or an empty-payload error never also emits the confirmation.      *)
(***************************************************************************)
\* the last event sent the reply m
Replied(m) == \E i \in 1..Len(replies) : replies[i] = m

\* the errors of generating and of rendering a payload
PayloadErrors == {E_DATA_GENERATION, E_WIFI_GENERATION, E_EMPTY_DATA, E_QR_GENERATION}

C34_ReadyOnlyAfterSent ==
    Replied("qr_ready") =>
        /\ rendered # <<>>
        /\ Replied(QR_PHOTO)
        /\ \A e \in PayloadErrors : ~Replied(e)

\* the part of C34 that holds: a confirmation that comes with no error
\* comes with a payload that was rendered and sent
C34_ReadyWithoutErrorAfterSent ==
    (Replied("qr_ready") /\ \A e \in PayloadErrors : ~Replied(e)) =>
        rendered # <<>> /\ Replied(QR_PHOTO)

(***************************************************************************)
(* C35.  A prompt for a field is emitted only when, after the event, a     *)
(* session of the matching data type is active at that field; the wifi     *)
(* password prompt in particular is never emitted while no wifi session    *)
(* exists.                                                                 *)
(***************************************************************************)
\* the prompt of the field a session is waiting for
PromptOf(ud) ==
    IF WifiSession(ud)
    THEN (CASE ud["wifi_data"]["step"] = "ssid"       -> <<"enter_wifi_ssid">>
            [] ud["wifi_data"]["step"] = "encryption" -> <<"select_encryption">>
            [] ud["wifi_data"]["step"] = "password"   -> <<"enter_wifi_password">>
            [] OTHER -> <<>>)
    ELSE IF MultiSession(ud) THEN ask_for_multi_step_input(ud)
    ELSE IF SingleSession(ud) THEN <<"enter_" \o TypeOf(ud)>>
    ELSE <<>>

\* the prompts of the fields of all data types
Prompts ==
    {"enter_" \o t : t \in SingleTypes}
    \cup {"enter_wifi_ssid", "select_encryption", "enter_wifi_password"}
    \cup UNION {{"enter_" \o t \o "_" \o f :
                    f \in {"lat", "lon", "phone", "text", "name", "company",
                           "email", "website", "title", "date", "time",
                           "location", "amount", "address", "currency",
                           "username", "platform"}} : t \in MultiStepTypes}

PromptsFit(excepted) ==
    \A i \in 1..Len(replies) :
        replies[i] \in Prompts \ excepted => PromptOf(Now) = <<replies[i]>>

C35_PromptOnlyInSession == PromptsFit({})

\* the part of C35 that holds: every prompt but the wifi password prompt
C35_OtherPromptsInSession == PromptsFit({"enter_wifi_password"})

(***************************************************************************)
(* C36.  Handling an event of one user never changes the state of another  *)
(* user: the other user's data type, step, collected fields and language   *)
(* are the same before and after, under any interleaving of the events of  *)
(* different users.                                                        *)
(***************************************************************************)
\* the users whose update finishes in this step
Finishing == {upd.user : upd \in running \ running'}

C36_EventTouchesOwnUser ==
    \A u \in Users : u \notin Finishing => user_data'[u] = user_data[u]

C36_OtherUsersUntouched == [][C36_EventTouchesOwnUser]_vars

\* bob has selected a language, and two updates of alice were handled as
\* well: her session is at its second field
C36_Witness ==
    /\ user_data["bob"] = [language |-> "ru"]
    /\ MultiSession(Now)
    /\ MultiData["step"] = 2
    /\ running = {}

====
